---- MODULE Spec2Model ----
(***************************************************************************)
(* Procedural zone generation (runtime/world/MapGenerator.js) as a state   *)
(* machine.  One call of MapGenerator.generate runs through its            *)
(* sub-generators in program order; `pc` is the position inside the call.  *)
(*                                                                         *)
(* Numbers.  The source computes with IEEE doubles; the model computes     *)
(* with integers:                                                          *)
(*   - coordinates and distances are whole pixels,                         *)
(*   - a PRNG draw next() is U/RngMod with U in 0..RngMod-1,               *)
(*   - densities are in units of 1e-8 spawns per pixel^2,                  *)
(*   - factors such as 1.35 are applied as (v * 135) \div 100,             *)
(*   - an angle is one of NumDirs directions, Cos/Sin scaled by 1000,      *)
(*   - Math.hypot(dx,dy) < d is compared as dx^2 + dy^2 < d^2.             *)
(* An optional JSON field is <<>> (absent) or <<v>> (present).             *)
(***************************************************************************)
EXTENDS Integers, Sequences, FiniteSets, TLC

\* ------------------------------------------------------------------------
\* Bounds of the model
\* ------------------------------------------------------------------------
\* zone seeds 1..MaxSeed are tried
MaxSeed == 3

\* resolution of one PRNG draw: next() = U / RngMod
RngMod == 1000

\* number of discrete directions an angle in [0, 2*PI) is quantised to
NumDirs == 16

\* ------------------------------------------------------------------------
\* Small helpers
\* ------------------------------------------------------------------------
Min(a, b) == IF a < b THEN a ELSE b

Max(a, b) == IF a > b THEN a ELSE b

Abs(a) == IF a < 0 THEN -a ELSE a

\* (typeof f === 'number') ? f : d
NumOr(f, d) == IF f # <<>> THEN f[1] ELSE d

\* f || d  for a numeric f: absent and 0 both fall back to d
OrDefault(f, d) == IF f = <<>> \/ f[1] = 0 THEN d ELSE f[1]

\* Math.hypot(ax - bx, ay - by) < d, for d >= 0; for d < 0 nothing is closer
Closer(ax, ay, bx, by, d) ==
  /\ d > 0
  /\ (ax - bx) * (ax - bx) + (ay - by) * (ay - by) < d * d

\* Math.cos / Math.sin of direction k (k * 2*PI / NumDirs), times 1000;
\* the table has 16 entries and k is reduced to it
CosTab == << 1000, 924, 707, 383, 0, -383, -707, -924,
             -1000, -924, -707, -383, 0, 383, 707, 924 >>

Cos(k) == CosTab[(((k * 16) \div NumDirs) % 16) + 1]

Sin(k) == CosTab[(((k * 16) \div NumDirs + 12) % 16) + 1]

\* Math.floor(w * h * density), density in units of 1e-8 per pixel^2
AreaCount(w, h, d) ==
  LET A == w * h
  IN  ((A \div 1000) * d + ((A % 1000) * d) \div 1000) \div 100000

\* ------------------------------------------------------------------------
\* PRNG (runtime/world/SeededRandom.js): output is a pure function of
\* (seed, draw count).  The state is the seed and the number of draws made.
\* ------------------------------------------------------------------------
RngPrime == 32749

Mix(x) == LET y == x % RngPrime IN (y * y + 75 * y + 74) % RngPrime

\* the draw made in state r, as an integer in 0..RngMod-1
U(r) == Mix(Mix(r.seed * 97 + 13) + r.n * 7919 + r.n) % RngMod

\* the state after k further draws
Skip(r, k) == [r EXCEPT !.n = r.n + k]

\* rng.range(a, b): a + next() * (b - a)
RngRange(r, a, b) == a + (U(r) * (b - a)) \div RngMod

\* rng.int(a, b): inclusive on both ends
RngInt(r, a, b) == a + (U(r) * (b - a + 1)) \div RngMod

\* rng.pick(list)
RngPick(r, list) == list[(U(r) * Len(list)) \div RngMod + 1]

\* rng.chance(p), p in percent
RngChance(r, pct) == U(r) * 100 < pct * RngMod

\* rng.range(0, Math.PI * 2) as a direction index
RngAngle(r) == (U(r) * NumDirs) \div RngMod

\* a generator that is kept when the seed repeats, one draw ahead, instead
\* of being constructed anew
NewRngShared(zoneSeed, old) ==
  IF old.seed = zoneSeed THEN [seed |-> zoneSeed, n |-> 1]
  ELSE [seed |-> zoneSeed, n |-> 0]

\* line 17, new SeededRandom(zoneSeed): a fresh generator per call; `old` is
\* the state the previous call left behind, which the constructor ignores
NewRng(zoneSeed, old) == [seed |-> zoneSeed, n |-> 0]

\* ------------------------------------------------------------------------
\* Loaded data: State.data.config.exploration and State.data.packs.
\* They are loaded once at start-up and never written afterwards.
\* ------------------------------------------------------------------------
TuneAbsent ==
  [ maxEnemySpawnsPerZone |-> <<>>, enemySpawnMinDistFromSpawn |-> <<>>,
    enemySpawnMinDistFromExit |-> <<>>, enemySpawnMinDistBetween |-> <<>>,
    maxEliteSpawnsPerZone |-> <<>>, maxObstaclesPerZone |-> <<>>,
    maxDecorationsPerZone |-> <<>>, enemyDensityMult |-> <<>>,
    eliteDensityMult |-> <<>>, mapScale |-> <<>>,
    maxStarsBackground |-> <<>>, maxStarsMidground |-> <<>> ]

\* tight caps: the example of the specification (maxEnemySpawnsPerZone = 10)
TuneCapped ==
  [ TuneAbsent EXCEPT !.maxEnemySpawnsPerZone = <<10>>,
                      !.maxEliteSpawnsPerZone = <<0>>,
                      !.maxObstaclesPerZone = <<6>>,
                      !.maxDecorationsPerZone = <<5>>,
                      !.maxStarsBackground = <<40>>,
                      !.maxStarsMidground = <<40>> ]

\* short exclusion radii, so that a small zone can hold the whole budget
TuneLoose ==
  [ TuneAbsent EXCEPT !.maxEnemySpawnsPerZone = <<4>>,
                      !.enemySpawnMinDistFromSpawn = <<120>>,
                      !.enemySpawnMinDistFromExit = <<100>>,
                      !.enemySpawnMinDistBetween = <<60>>,
                      !.maxEliteSpawnsPerZone = <<3>>,
                      !.maxObstaclesPerZone = <<20>>,
                      !.maxDecorationsPerZone = <<30>>,
                      !.eliteDensityMult = <<200>>,
                      !.mapScale = <<110>> ]

TuneTables == { TuneAbsent, TuneCapped, TuneLoose }

\* data/packs.json: one template with a fixed member list, one with a free
\* type pool; the placement settings are left to their defaults
PackTableMixed ==
  [ templates |->
      << [ id |-> "squad", weight |-> <<2>>, types |-> <<>>,
           members |-> << [ type |-> "grunt", min |-> <<2>>, max |-> <<3>> ],
                          [ type |-> "sniper", min |-> <<>>, max |-> <<>> ] >> ],
         [ id |-> "swarm", weight |-> <<>>, members |-> <<>>,
           types |-> <<"scout", "kamikaze">> ] >>,
    packChance |-> <<>>, packSizeMin |-> <<>>, packSizeMax |-> <<>>,
    maxPacksPerZone |-> <<>>, memberSpacing |-> <<>>,
    minDistFromSpawn |-> <<>>, minDistFromExit |-> <<>> ]

\* a malformed table: the second entry of templates is null (written <<>>)
PackTableBroken ==
  [ PackTableMixed EXCEPT !.templates = << PackTableMixed.templates[1], << >> >> ]

\* State.data.packs is null (<<>>) or a loaded table
PackTables == { <<>>, << PackTableMixed >>, << PackTableBroken >> }

\* ------------------------------------------------------------------------
\* Inputs of generate: act (tier) configurations, seeds, options
\* ------------------------------------------------------------------------
\* a small arena with explicit, low densities
ActSmall ==
  [ id |-> "small", width |-> <<600>>, height |-> <<600>>,
    enemyDensity |-> <<2000>>, eliteDensity |-> <<800>>,
    obstacleDensity |-> <<3000>>,
    pool |-> <<"grunt", "scout">>, elitePool |-> <<>>, biome |-> "space",
    boss |-> <<>>, bossPool |-> <<>>, bossEvery |-> <<>>, zones |-> <<>> ]

\* a crowded arena: the enemy density implies about 500 raw slots
ActDense ==
  [ id |-> "dense", width |-> <<800, 820>>, height |-> <<600>>,
    enemyDensity |-> <<104200>>, eliteDensity |-> <<>>,
    obstacleDensity |-> <<>>,
    pool |-> <<>>, elitePool |-> <<"commander", "warden">>,
    biome |-> "asteroid",
    boss |-> << [ arenaWidth |-> <<900>>, arenaHeight |-> <<>>, type |-> <<>> ] >>,
    bossPool |-> <<"overlord", "hive">>, bossEvery |-> <<>>, zones |-> <<4>> ]

ActConfigs == { ActSmall, ActDense }

Seeds == 1..MaxSeed

Depths == { 1, 4, 50 }

ModSets == { {}, {"BULLET_HELL", "CRAMPED_ZONE", "MINEFIELD"} }

Difficulties == { "normal", "chaos" }

Inputs ==
  [ act : ActConfigs, seed : Seeds,
    opts : [ depth : Depths, mods : ModSets, difficulty : Difficulties ] ]

NoZone == [ width |-> 0 ]

VARIABLES
  tune,     \* State.data.config.exploration
  packs,    \* State.data.packs
  pc,       \* position inside the running generate call
  arg,      \* arguments of the running (or last) generate call
  rng,      \* the SeededRandom instance of the call
  dens,     \* resolved densities: enemy, elite, obstacle
  zone,     \* the zone object under construction; returned at "done"
  loc,      \* frame (locals) of the sub-generator that is running
  prev      \* the zone the previous call returned, kept when the
            \* running call has the same arguments; <<>> otherwise

\* the spatial index and the entity objects it is fed with
VARIABLES
  ents,     \* the entity objects: id -> [ x, y, radius, size ]
  grid,     \* the SpatialHash grid object: cells and entityCells
  call      \* the last SpatialHash call and what it returned; <<>> at start

VARIABLES
  run,      \* State.run: active, difficulty, streak, objective, _nextRoute
  world,    \* the World object: currentZone, currentAct, zoneIndex, the flags
            \* of the zone's spawns and obstacles, and the position inside a
            \* running World.update or World.init
  stEnemies,  \* State.enemies
  player    \* State.player: x, y

vars == << tune, packs, pc, arg, rng, dens, zone, loc, prev, ents, grid, call,
           run, world, stEnemies, player >>

gameVars == << run, world, stEnemies, player >>

\* the variables generate does not touch
indexVars == << ents, grid, call >>

\* SpatialHash.create(cellSize), ROADMAP.md lines 355-362: an empty grid
EmptyGrid == [ cells |-> << >>, entityCells |-> << >> ]

\* no entity exists and no grid call was made
IndexIdle ==
  /\ ents = << >>
  /\ grid = EmptyGrid
  /\ call = << >>

\* State.run.streak as State.js creates it (part_000 lines 99-105); xpMult
\* is kept in tenths and lootMult in hundredths
InitialStreak ==
  [ count |-> 0, timer |-> 0, best |-> 0, xpMult |-> 10, lootMult |-> 100 ]

\* State.run when the module is loaded (part_000 lines 75-108): the streak
\* is present, the objective is null
InitialRun ==
  [ active |-> FALSE, difficulty |-> "normal", kills |-> 0,
    streak |-> << InitialStreak >>, objective |-> << >>, nextRoute |-> << >> ]

\* the object resetRun assigns to State.run (part_000 lines 204-224): it has
\* neither a streak nor an objective field; kills is stats.kills
ResetRunValue ==
  [ active |-> FALSE, difficulty |-> "normal", kills |-> 0, streak |-> << >>,
    objective |-> << >>, nextRoute |-> << >> ]

\* the World object before World.init (Bullets.js lines 969-980); active,
\* killed and destroyed are the flags of the current zone's spawns and
\* obstacles, portals is currentZone.portals, loads counts the calls of
\* loadZone, cont tells which caller a running loadZone returns to, phase
\* is the call updateCombat makes next (main.js lines 223-238)
NoWorld ==
  [ currentZone |-> << >>, currentAct |-> << >>, zoneIndex |-> 0,
    active |-> {}, killed |-> {}, destroyed |-> {}, portals |-> << >>,
    triggered |-> {}, cleared |-> {}, collected |-> {},
    scene |-> "hub", loads |-> 0, phase |-> "world",
    cont |-> "none", loading |-> 0, dt |-> 0, rest |-> << >> ]

\* no run has been started
GameIdle ==
  /\ run = InitialRun
  /\ world = NoWorld
  /\ stEnemies = << >>
  /\ player = [ x |-> 0, y |-> 0 ]

\* ------------------------------------------------------------------------
\* generate, lines 16-122: densities, dimensions, spawn, parallax, exit
\* ------------------------------------------------------------------------
\* pickRange(v, fallbackMin, fallbackMax)
PickRange(r, v, lo, hi) ==
  IF Len(v) >= 2 THEN [ v |-> RngInt(r, v[1], v[2]), r |-> Skip(r, 1) ]
  ELSE IF Len(v) = 1 THEN [ v |-> v[1], r |-> r ]
  ELSE [ v |-> RngInt(r, lo, hi), r |-> Skip(r, 1) ]

\* options.depth || 1
Depth(opts) == IF opts.depth = 0 THEN 1 ELSE opts.depth

\* the three densities after depth ramp, modifiers, difficulty and tuning
Densities(cfg, opts, tn) ==
  LET depth == Depth(opts)
      e0 == (OrDefault(cfg.enemyDensity, 50000) * (1000 + Min(depth * 12, 1600))) \div 1000
      l0 == (OrDefault(cfg.eliteDensity, 8000) * (1000 + Min(depth * 10, 1200))) \div 1000
      o0 == (OrDefault(cfg.obstacleDensity, 20000) * (1000 + Min(depth * 8, 1000))) \div 1000
      e1 == IF "BULLET_HELL" \in opts.mods THEN (e0 * 135) \div 100 ELSE e0
      l1 == IF "ELITE_PACKS" \in opts.mods THEN (l0 * 155) \div 100 ELSE l0
      e2 == IF "FAST_ENEMIES" \in opts.mods THEN (e1 * 110) \div 100 ELSE e1
      o1 == IF "DENSE_OBSTACLES" \in opts.mods THEN (o0 * 135) \div 100 ELSE o0
      o2 == IF "MINEFIELD" \in opts.mods THEN (o1 * 115) \div 100 ELSE o1
      l2 == IF opts.difficulty = "risk" THEN l1 * 3
            ELSE IF opts.difficulty = "chaos" THEN l1 * 5 ELSE l1
      e3 == IF opts.difficulty = "chaos" THEN (e2 * 13) \div 10 ELSE e2
      o3 == IF opts.difficulty = "chaos" THEN (o2 * 14) \div 10 ELSE o2
      e4 == IF tn.enemyDensityMult # <<>> THEN (e3 * tn.enemyDensityMult[1]) \div 100 ELSE e3
      l3 == IF tn.eliteDensityMult # <<>> THEN (l2 * tn.eliteDensityMult[1]) \div 100 ELSE l2
  IN  [ enemy |-> e4, elite |-> l3, obstacle |-> o3 ]

\* width and height: configured range, CRAMPED_ZONE, map scale (in percent)
Dimensions(r, cfg, opts, tn) ==
  LET pw == PickRange(r, cfg.width, 1500, 3000)
      ph == PickRange(pw.r, cfg.height, 1500, 3000)
      cramped == "CRAMPED_ZONE" \in opts.mods
      w1 == IF cramped THEN (pw.v * 85) \div 100 ELSE pw.v
      h1 == IF cramped THEN (ph.v * 85) \div 100 ELSE ph.v
      mapScale == IF tn.mapScale # <<>> /\ tn.mapScale[1] > 0
                  THEN tn.mapScale[1] ELSE 100
  IN  [ w |-> IF mapScale # 100 THEN Max(600, (w1 * mapScale) \div 100) ELSE w1,
        h |-> IF mapScale # 100 THEN Max(600, (h1 * mapScale) \div 100) ELSE h1,
        r |-> ph.r ]

\* generateSpawnPoint(rng, w, h, cfg)
GenerateSpawnPoint(r, w, h) ==
  LET edge == RngPick(r, <<"bottom", "left", "right">>)
      c    == Skip(r, 1)
  IN  [ r |-> Skip(r, 2),
        v |-> CASE edge = "bottom" -> [ x |-> RngRange(c, 100, w - 100), y |-> h - 100 ]
                [] edge = "left"   -> [ x |-> 100, y |-> RngRange(c, 100, h - 100) ]
                [] OTHER           -> [ x |-> w - 100, y |-> RngRange(c, 100, h - 100) ] ]

\* generateStarfield: the number of stars; every star makes five draws
StarCount(w, h, d, maxCount) ==
  LET countRaw == AreaCount(w, h, d)
      cap      == IF maxCount > 0 THEN maxCount ELSE 0
  IN  IF cap # 0 THEN Min(countRaw, cap) ELSE countRaw

\* generateParallax: the two star fields (1.5*1.5*0.0003 and 1.3*1.3*0.0002
\* of the area); the modelled act configurations enable no nebula
GenerateParallax(r, w, h, tn) ==
  LET bg  == StarCount(w, h, 67500, NumOr(tn.maxStarsBackground, 1800))
      mid == StarCount(w, h, 33800, NumOr(tn.maxStarsMidground, 1200))
  IN  [ v |-> [ background |-> bg, midground |-> mid ],
        r |-> Skip(r, 5 * (bg + mid)) ]

\* generateExitPoint(rng, spawn, w, h)
GenerateExitPoint(r, spawn, w, h) ==
  [ r |-> Skip(r, 1),
    v |-> IF 2 * spawn.y > h THEN [ x |-> RngRange(r, 100, w - 100), y |-> 100 ]
          ELSE IF 2 * spawn.x < w THEN [ x |-> w - 100, y |-> RngRange(r, 100, h - 100) ]
          ELSE [ x |-> 100, y |-> RngRange(r, 100, h - 100) ] ]

\* actConfig.enemies?.pool || ['grunt']
EnemyPool(cfg) == IF cfg.pool = <<>> THEN <<"grunt">> ELSE cfg.pool

\* actConfig.enemies?.elitePool || ['commander']
ElitePool(cfg) == IF cfg.elitePool = <<>> THEN <<"commander">> ELSE cfg.elitePool

\* generateEnemySpawns, lines 267-270: the spawn budget
EnemyBudget(w, h, density, tn) ==
  LET maxSpawns == NumOr(tn.maxEnemySpawnsPerZone, 120)
      countRaw  == AreaCount(w, h, density)
  IN  Max(0, Min(countRaw, maxSpawns))

Init ==
  /\ tune \in TuneTables
  /\ packs \in PackTables
  /\ pc = "idle"
  /\ arg = <<>>
  /\ rng = [ seed |-> 0, n |-> 0 ]
  /\ dens = [ enemy |-> 0, elite |-> 0, obstacle |-> 0 ]
  /\ zone = NoZone
  /\ loc = [ count |-> 0, i |-> 0, spawns |-> <<>> ]
  /\ prev = <<>>
  /\ IndexIdle
  /\ GameIdle

\* generate(actConfig, zoneSeed, options) is called: everything up to the
\* first iteration of the placement loop of generateEnemySpawns
GenerateCall(in) ==
  /\ pc \in { "idle", "done", "bossDone", "thrown" }
  /\ LET r0  == NewRng(in.seed, rng)
         d   == Densities(in.act, in.opts, tune)
         dim == Dimensions(r0, in.act, in.opts, tune)
         sp  == GenerateSpawnPoint(dim.r, dim.w, dim.h)
         par == GenerateParallax(sp.r, dim.w, dim.h, tune)
         ex  == GenerateExitPoint(par.r, sp.v, dim.w, dim.h)
     IN  /\ dens' = d
         /\ zone' = [ seed |-> in.seed, width |-> dim.w, height |-> dim.h,
                      biome |-> in.act.biome, spawn |-> sp.v, exit |-> ex.v,
                      parallax |-> par.v,
                      enemySpawns |-> <<>>, eliteSpawns |-> <<>>,
                      obstacles |-> <<>>, decorations |-> <<>>,
                      pois |-> <<>>, resourceNodes |-> <<>>,
                      objective |-> <<>>, branchExits |-> <<>> ]
         /\ rng' = ex.r
         /\ loc' = [ count |-> EnemyBudget(dim.w, dim.h, d.enemy, tune),
                     i |-> 0, spawns |-> <<>> ]
  /\ prev' = IF pc = "done" /\ in = arg THEN << zone >> ELSE <<>>
  /\ arg' = in
  /\ pc' = "enemySpawns"
  /\ UNCHANGED << tune, packs >>

\* ------------------------------------------------------------------------
\* generateEnemySpawns, lines 276-308: the placement loop, one iteration
\* per step
\* ------------------------------------------------------------------------
\* a loop condition without the retry ceiling
EnemyLoopNoCeiling(i, count, n) == n < count

\* line 276: the loop condition  i < count * 3 && spawns.length < count
EnemyLoopCond(i, count, n) == i < count * 3 /\ n < count

\* some accepted spawn is closer than d to (x, y)
TooClose(spawns, x, y, d) ==
  \E k \in 1..Len(spawns) : Closer(x, y, spawns[k].x, spawns[k].y, d)

\* the candidate is rejected (one of the three `continue`s)
EnemyReject(spawns, x, y, sp, ex, tn) ==
  \/ Closer(x, y, sp.x, sp.y, NumOr(tn.enemySpawnMinDistFromSpawn, 300))
  \/ Closer(x, y, ex.x, ex.y, NumOr(tn.enemySpawnMinDistFromExit, 200))
  \/ TooClose(spawns, x, y, NumOr(tn.enemySpawnMinDistBetween, 150))

\* the spawn pushed for an accepted candidate; r is the state after x and y
NewEnemySpawn(r, x, y, pool) ==
  [ x |-> x, y |-> y, type |-> RngPick(r, pool),
    patrol |-> RngPick(Skip(r, 1), <<"static", "circle", "line", "wander">>),
    patrolRadius |-> RngInt(Skip(r, 2), 50, 150),
    active |-> FALSE, killed |-> FALSE, packId |-> "", poiId |-> "" ]

EnemySpawnStep ==
  /\ pc = "enemySpawns"
  /\ EnemyLoopCond(loc.i, loc.count, Len(loc.spawns))
  /\ LET x  == RngRange(rng, 100, zone.width - 100)
         y  == RngRange(Skip(rng, 1), 100, zone.height - 100)
         r2 == Skip(rng, 2)
     IN  IF EnemyReject(loc.spawns, x, y, zone.spawn, zone.exit, tune)
         THEN /\ loc' = [ loc EXCEPT !.i = loc.i + 1 ]
              /\ rng' = r2
         ELSE /\ loc' = [ loc EXCEPT !.i = loc.i + 1,
                            !.spawns = Append(loc.spawns,
                                         NewEnemySpawn(r2, x, y, EnemyPool(arg.act))) ]
              /\ rng' = Skip(r2, 3)
  /\ UNCHANGED << tune, packs, pc, arg, dens, zone, prev >>

\* the loop is left: generateEnemySpawns returns, zone.enemySpawns is set
EnemySpawnReturn ==
  /\ pc = "enemySpawns"
  /\ ~EnemyLoopCond(loc.i, loc.count, Len(loc.spawns))
  /\ zone' = [ zone EXCEPT !.enemySpawns = loc.spawns ]
  /\ pc' = "packDirector"
  /\ UNCHANGED << tune, packs, arg, rng, dens, loc, prev >>

\* ------------------------------------------------------------------------
\* applyPackDirector(rng, spawns, pool, spawnPt, exitPt), lines 320-443
\* ------------------------------------------------------------------------
\* lines 338-344: Fisher-Yates shuffle of the indices, i counts down to 1
\* (idx holds the source's 0-based indices plus one)
RECURSIVE ShuffleIdx(_, _, _)
ShuffleIdx(r, idx, i) ==
  IF i <= 0 THEN [ v |-> idx, r |-> r ]
  ELSE LET j == RngInt(r, 0, i)
       IN  ShuffleIdx(Skip(r, 1),
                      [ idx EXCEPT ![i + 1] = idx[j + 1], ![j + 1] = idx[i + 1] ],
                      i - 1)

\* typeof t.weight === 'number' ? t.weight : 1
TplWeight(t) == NumOr(t.weight, 1)

RECURSIVE SumWeights(_, _)
SumWeights(tpls, k) ==
  IF k > Len(tpls) THEN 0 ELSE TplWeight(tpls[k]) + SumWeights(tpls, k + 1)

\* pickTemplate: r = rng.range(0, total); the first template at which the
\* running remainder is <= 0, i.e. next() * total <= the cumulated weight
RECURSIVE PickTemplateFrom(_, _, _, _, _)
PickTemplateFrom(tpls, k, cum, u, total) ==
  IF k > Len(tpls) THEN tpls[1]
  ELSE IF u * total <= (cum + TplWeight(tpls[k])) * RngMod THEN tpls[k]
  ELSE PickTemplateFrom(tpls, k + 1, cum + TplWeight(tpls[k]), u, total)

PickTemplate(r, tpls) == PickTemplateFrom(tpls, 1, 0, U(r), SumWeights(tpls, 1))

\* line 350: pickTemplate reads t.weight of every entry of templates, which
\* throws a TypeError when an entry is null
PickTemplateThrows(tpls) == \E k \in 1..Len(tpls) : tpls[k] = << >>

\* cnt copies of a type
RECURSIVE Repeat(_, _)
Repeat(t, cnt) == IF cnt <= 0 THEN <<>> ELSE <<t>> \o Repeat(t, cnt - 1)

\* lines 381-391: the explicit composition of a template with members
RECURSIVE MemberTypes(_, _, _, _)
MemberTypes(r, members, k, acc) ==
  IF k > Len(members) THEN [ v |-> acc, r |-> r ]
  ELSE LET mi  == NumOr(members[k].min, 1)
           ma  == NumOr(members[k].max, mi)
           cnt == RngInt(r, mi, ma)
       IN  MemberTypes(Skip(r, 1), members, k + 1,
                       acc \o Repeat(members[k].type, cnt))

\* lines 396-403: the anchor and up to size-1 further unused indices, taken
\* in shuffled order after position k, are marked used
RECURSIVE ConsumeSlots(_, _, _, _, _)
ConsumeSlots(idx, used, kk, consumed, size) ==
  IF kk > Len(idx) \/ consumed >= size THEN used
  ELSE IF idx[kk] \in used
       THEN ConsumeSlots(idx, used, kk + 1, consumed, size)
       ELSE ConsumeSlots(idx, used \cup { idx[kk] }, kk + 1, consumed + 1, size)

\* lines 406-431: the members created around the anchor
RECURSIVE PackMembers(_, _, _, _, _, _, _, _, _)
PackMembers(r, anchor, m, size, mt, tpl, pool, spacing, out) ==
  IF m >= size THEN [ v |-> out, r |-> r ]
  ELSE LET angle == RngAngle(r)
           dist  == RngRange(Skip(r, 1), 30, spacing)
           r2    == Skip(r, 2)
           fixed == mt # <<>> /\ Len(mt) = size
           free  == ~fixed /\ tpl.types # <<>>
           type  == IF fixed THEN mt[m + 1]
                    ELSE IF free THEN RngPick(r2, tpl.types)
                    ELSE RngPick(r2, pool)
       IN  PackMembers(IF fixed THEN r2 ELSE Skip(r2, 1),
                       anchor, m + 1, size, mt, tpl, pool, spacing,
                       Append(out,
                         [ x |-> anchor.x + (Cos(angle) * dist) \div 1000,
                           y |-> anchor.y + (Sin(angle) * dist) \div 1000,
                           type |-> type, patrol |-> anchor.patrol,
                           patrolRadius |-> anchor.patrolRadius,
                           active |-> FALSE, killed |-> FALSE,
                           packId |-> tpl.id, poiId |-> "" ]))

\* validAnchor(p)
ValidAnchor(p, spawnPt, exitPt, pd) ==
  /\ ~Closer(p.x, p.y, spawnPt.x, spawnPt.y, NumOr(pd.minDistFromSpawn, 350))
  /\ ~Closer(p.x, p.y, exitPt.x, exitPt.y, NumOr(pd.minDistFromExit, 250))

\* lines 369-434: the loop over the shuffled indices; st holds rng, used,
\* out and packsMade, and threw once pickTemplate has thrown
RECURSIVE PackLoop(_, _, _, _, _, _, _, _)
PackLoop(st, k, idx, spawns, pool, spawnPt, exitPt, pd) ==
  IF st.threw \/ k > Len(idx) \/ st.packsMade >= NumOr(pd.maxPacksPerZone, 6) THEN st
  ELSE
    LET i == idx[k]
        anchor == spawns[i]
    IN  IF i \in st.used \/ ~ValidAnchor(anchor, spawnPt, exitPt, pd)
        THEN PackLoop(st, k + 1, idx, spawns, pool, spawnPt, exitPt, pd)
        ELSE IF U(st.r) * 100 > NumOr(pd.packChance, 70) * RngMod
        THEN PackLoop([ st EXCEPT !.r = Skip(st.r, 1) ], k + 1,
                      idx, spawns, pool, spawnPt, exitPt, pd)
        ELSE IF PickTemplateThrows(pd.templates)
        THEN [ st EXCEPT !.r = Skip(st.r, 1), !.threw = TRUE ]
        ELSE
          LET tpl  == PickTemplate(Skip(st.r, 1), pd.templates)
              r2   == Skip(st.r, 2)
              mts  == IF tpl.members # <<>>
                      THEN MemberTypes(r2, tpl.members, 1, <<>>)
                      ELSE [ v |-> <<>>, r |-> r2 ]
              mt   == mts.v
              size == IF mt # <<>> THEN Len(mt)
                      ELSE RngInt(mts.r, NumOr(pd.packSizeMin, 3), NumOr(pd.packSizeMax, 5))
              r3   == IF mt # <<>> THEN mts.r ELSE Skip(mts.r, 1)
              used == ConsumeSlots(idx, st.used \cup { i }, k + 1, 1, size)
              mem  == PackMembers(r3, anchor, 0, size, mt, tpl, pool,
                                  NumOr(pd.memberSpacing, 120), st.out)
          IN  PackLoop([ r |-> mem.r, used |-> used, out |-> mem.v,
                         packsMade |-> st.packsMade + 1, threw |-> FALSE ],
                       k + 1, idx, spawns, pool, spawnPt, exitPt, pd)

\* lines 437-440: the spawns that no pack consumed, in their original order
RECURSIVE RemainingSingles(_, _, _)
RemainingSingles(spawns, used, i) ==
  IF i > Len(spawns) THEN <<>>
  ELSE (IF i \in used THEN <<>> ELSE << spawns[i] >>)
       \o RemainingSingles(spawns, used, i + 1)

\* applyPackDirector(rng, spawns, pool, spawnPt, exitPt); threw tells that
\* the call ended in an exception instead of returning v
ApplyPackDirector(r, spawns, pool, spawnPt, exitPt, pk) ==
  IF pk = <<>> \/ pk[1].templates = <<>>
  THEN [ v |-> spawns, r |-> r, threw |-> FALSE ]
  ELSE IF Len(spawns) < NumOr(pk[1].packSizeMin, 3)
  THEN [ v |-> spawns, r |-> r, threw |-> FALSE ]
  ELSE
    LET pd  == pk[1]
        sh  == ShuffleIdx(r, [ n \in 1..Len(spawns) |-> n ], Len(spawns) - 1)
        fin == PackLoop([ r |-> sh.r, used |-> {}, out |-> <<>>, packsMade |-> 0,
                          threw |-> FALSE ],
                        1, sh.v, spawns, pool, spawnPt, exitPt, pd)
    IN  [ v |-> fin.out \o RemainingSingles(spawns, fin.used, 1), r |-> fin.r,
          threw |-> fin.threw ]

PackDirector ==
  /\ pc = "packDirector"
  /\ LET res == ApplyPackDirector(rng, zone.enemySpawns, EnemyPool(arg.act),
                                  zone.spawn, zone.exit, packs)
     IN  IF res.threw
         THEN \* the exception leaves generate: no zone is returned
              /\ pc' = "thrown"
              /\ rng' = res.r
              /\ UNCHANGED zone
         ELSE /\ zone' = [ zone EXCEPT !.enemySpawns = res.v ]
              /\ rng' = res.r
              /\ pc' = "eliteSpawns"
  /\ UNCHANGED << tune, packs, arg, dens, loc, prev >>

\* ------------------------------------------------------------------------
\* generateEliteSpawns(rng, pool, density, w, h), lines 446-464
\* ------------------------------------------------------------------------
\* lines 449-451: the number of elites placed
EliteCount(w, h, density, tn) ==
  Max(1, Min(AreaCount(w, h, density), NumOr(tn.maxEliteSpawnsPerZone, 8)))

\* lines 453-461: elite i (0-based); each makes three draws
EliteAt(r, pool, w, h) ==
  [ x |-> RngRange(r, 200, w - 200), y |-> RngRange(Skip(r, 1), 200, h - 200),
    type |-> RngPick(Skip(r, 2), pool), active |-> FALSE, killed |-> FALSE ]

GenerateEliteSpawns(r, pool, density, w, h, tn) ==
  LET count == EliteCount(w, h, density, tn)
  IN  [ v |-> [ k \in 1..count |-> EliteAt(Skip(r, 3 * (k - 1)), pool, w, h) ],
        r |-> Skip(r, 3 * count) ]

EliteSpawns ==
  /\ pc = "eliteSpawns"
  /\ LET res == GenerateEliteSpawns(rng, ElitePool(arg.act), dens.elite,
                                    zone.width, zone.height, tune)
     IN  /\ zone' = [ zone EXCEPT !.eliteSpawns = res.v ]
         /\ rng' = res.r
  /\ pc' = "obstacles"
  /\ UNCHANGED << tune, packs, arg, dens, loc, prev >>

\* ------------------------------------------------------------------------
\* generateObstacles(rng, density, w, h, options), lines 467-562
\* ------------------------------------------------------------------------
\* an obstacle record
Obstacle(x, y, type, radius, rotation, destructible, hp, damage) ==
  [ x |-> x, y |-> y, type |-> type, radius |-> radius, rotation |-> rotation,
    destructible |-> destructible, hp |-> hp, damage |-> damage,
    resourceType |-> "", hunting |-> FALSE ]

\* Math.floor(Math.sqrt(n)) by bisection between lo and hi
RECURSIVE ISqrtIn(_, _, _)
ISqrtIn(n, lo, hi) ==
  IF lo >= hi THEN lo
  ELSE LET mid == (lo + hi + 1) \div 2
       IN  IF mid * mid <= n THEN ISqrtIn(n, mid, hi) ELSE ISqrtIn(n, lo, mid - 1)

\* Math.hypot(dx, dy), rounded down
Hypot(dx, dy) == ISqrtIn(dx * dx + dy * dy, 0, Abs(dx) + Abs(dy))

\* lines 608-626: the asteroids of one side of one segment; g holds the
\* geometry of the segment
RECURSIVE WallSide(_, _, _, _, _, _, _, _, _)
WallSide(r, a, perSide, budget, side, g, w, h, walls) ==
  IF a >= perSide \/ Len(walls) >= budget THEN [ v |-> walls, r |-> r ]
  ELSE LET offset == g.cw \div 2 + RngRange(r, 20, 120)
           px == g.bx + g.jx + (g.perpX * offset * side) \div g.len
                      + RngRange(Skip(r, 2), -20, 20)
           py == g.by + g.jy + (g.perpY * offset * side) \div g.len
                      + RngRange(Skip(r, 3), -20, 20)
           r4 == Skip(r, 4)
       IN  IF px < 50 \/ px > w - 50 \/ py < 50 \/ py > h - 50
           THEN WallSide(r4, a + 1, perSide, budget, side, g, w, h, walls)
           ELSE WallSide(Skip(r4, 3), a + 1, perSide, budget, side, g, w, h,
                  Append(walls, Obstacle(px, py, "asteroid", RngInt(r4, 20, 55),
                                         RngAngle(Skip(r4, 1)), TRUE,
                                         RngInt(Skip(r4, 2), 30, 60), 0)))

\* lines 592-606: the geometry of segment s of corridor c (two draws)
SegmentGeometry(r, s, c) ==
  LET dx == c.ex - c.sx
      dy == c.ey - c.sy
      hy == Hypot(dx, dy)
  IN  [ bx |-> c.sx + (dx * s) \div c.segments,
        by |-> c.sy + (dy * s) \div c.segments,
        len |-> IF hy = 0 THEN 1 ELSE hy,
        perpX |-> -dy, perpY |-> dx,
        jx |-> RngRange(r, -80, 80),
        jy |-> RngRange(Skip(r, 1), -80, 80),
        cw |-> c.cw ]

\* lines 573-587: start and end point, segment count and gap width of a
\* corridor (five draws)
Corridor(r, w, h) ==
  LET startEdge == RngPick(r, <<"top", "bottom", "left", "right">>)
      p  == IF startEdge \in { "top", "bottom" }
            THEN RngRange(Skip(r, 1), 150, w - 150)
            ELSE RngRange(Skip(r, 1), 150, h - 150)
      q  == IF startEdge \in { "top", "bottom" }
            THEN RngRange(Skip(r, 2), 150, w - 150)
            ELSE RngRange(Skip(r, 2), 150, h - 150)
  IN  [ sx |-> CASE startEdge = "top" -> p [] startEdge = "bottom" -> p
                 [] startEdge = "left" -> 150 [] OTHER -> w - 150,
        sy |-> CASE startEdge = "top" -> 150 [] startEdge = "bottom" -> h - 150
                 [] OTHER -> p,
        ex |-> CASE startEdge = "top" -> q [] startEdge = "bottom" -> q
                 [] startEdge = "left" -> w - 150 [] OTHER -> 150,
        ey |-> CASE startEdge = "top" -> h - 150 [] startEdge = "bottom" -> 150
                 [] OTHER -> q,
        segments |-> RngInt(Skip(r, 3), 8, 15),
        cw |-> RngRange(Skip(r, 4), 100, 200) ]

\* 8 + Math.floor(depth * 0.25) for a mine, 0 otherwise
ObstacleDamage(type, depth) == IF type = "mine" THEN 8 + depth \div 4 ELSE 0

\* lines 470-476: the obstacle budget
ObstacleBudget(w, h, density, tn) ==
  Min(AreaCount(w, h, density), NumOr(tn.maxObstaclesPerZone, 1200))

\* line 155-161: generate passes { depth, mods } only, so the difficulty
\* generateObstacles reads (options.difficulty) is undefined
ObstacleOptions(opts) ==
  [ depth |-> Depth(opts), mods |-> opts.mods, difficulty |-> <<>> ]

\* lines 468-481 and 565-571: the budget, then _generateCorridorWalls is
\* entered with 40% of it and draws the corridor count
ObstaclesBegin ==
  /\ pc = "obstacles"
  /\ LET budgetTotal == ObstacleBudget(zone.width, zone.height, dens.obstacle, tune)
         budget == (budgetTotal * 4) \div 10
         corridorCount == RngInt(rng, 2, 4)
     IN  loc' = [ budgetTotal |-> budgetTotal, budget |-> budget,
                  corridorCount |-> corridorCount,
                  perCorridor |-> budget \div corridorCount,
                  c |-> 0, walls |-> <<>> ]
  /\ rng' = Skip(rng, 1)
  /\ pc' = "corridors"
  /\ UNCHANGED << tune, packs, arg, dens, zone, prev >>

\* lines 572-587: the next corridor
CorridorBegin ==
  /\ pc = "corridors"
  /\ loc.c < loc.corridorCount
  /\ loc' = [ budgetTotal |-> loc.budgetTotal, budget |-> loc.budget,
              corridorCount |-> loc.corridorCount, perCorridor |-> loc.perCorridor,
              c |-> loc.c, walls |-> loc.walls,
              cor |-> Corridor(rng, zone.width, zone.height), s |-> 0 ]
  /\ rng' = Skip(rng, 5)
  /\ pc' = "segments"
  /\ UNCHANGED << tune, packs, arg, dens, zone, prev >>

\* lines 589-627: segment s of the corridor, both sides
CorridorSegment ==
  /\ pc = "segments"
  /\ loc.s <= loc.cor.segments
  /\ LET g == SegmentGeometry(rng, loc.s, loc.cor)
         perSide == (loc.perCorridor \div loc.cor.segments) \div 2
         left  == WallSide(Skip(rng, 2), 0, perSide, loc.budget, -1, g,
                           zone.width, zone.height, loc.walls)
         right == WallSide(left.r, 0, perSide, loc.budget, 1, g,
                           zone.width, zone.height, left.v)
     IN  /\ loc' = [ loc EXCEPT !.walls = right.v, !.s = loc.s + 1 ]
         /\ rng' = right.r
  /\ UNCHANGED << tune, packs, pc, arg, dens, zone, prev >>

CorridorEnd ==
  /\ pc = "segments"
  /\ ~(loc.s <= loc.cor.segments)
  /\ loc' = [ budgetTotal |-> loc.budgetTotal, budget |-> loc.budget,
              corridorCount |-> loc.corridorCount, perCorridor |-> loc.perCorridor,
              c |-> loc.c + 1, walls |-> loc.walls ]
  /\ pc' = "corridors"
  /\ UNCHANGED << tune, packs, arg, rng, dens, zone, prev >>

\* lines 481-488: the walls are added, then the cluster count is drawn
CorridorsDone ==
  /\ pc = "corridors"
  /\ ~(loc.c < loc.corridorCount)
  /\ loc' = [ budgetTotal |-> loc.budgetTotal,
              clusterBudget |-> (loc.budgetTotal * 3) \div 10,
              clusterCount |-> RngInt(rng, 3, 6),
              c |-> 0, clusterUsed |-> 0, obstacles |-> loc.walls ]
  /\ rng' = Skip(rng, 1)
  /\ pc' = "clusters"
  /\ UNCHANGED << tune, packs, arg, dens, zone, prev >>

\* line 490: c < clusterCount && clusterUsed < clusterBudget
ClusterLoopCond(f) == f.c < f.clusterCount /\ f.clusterUsed < f.clusterBudget

\* lines 491-494: centre, size and radius of the next cluster
ClusterBegin ==
  /\ pc = "clusters"
  /\ ClusterLoopCond(loc)
  /\ loc' = [ budgetTotal |-> loc.budgetTotal, clusterBudget |-> loc.clusterBudget,
              clusterCount |-> loc.clusterCount, c |-> loc.c,
              clusterUsed |-> loc.clusterUsed, obstacles |-> loc.obstacles,
              cx |-> RngRange(rng, 200, zone.width - 200),
              cy |-> RngRange(Skip(rng, 1), 200, zone.height - 200),
              clusterSize |-> RngInt(Skip(rng, 2), 8, 20),
              clusterRadius |-> RngRange(Skip(rng, 3), 80, 200),
              i |-> 0 ]
  /\ rng' = Skip(rng, 4)
  /\ pc' = "clusterFill"
  /\ UNCHANGED << tune, packs, arg, dens, zone, prev >>

\* line 496: i < clusterSize && clusterUsed < clusterBudget
ClusterFillCond(f) == f.i < f.clusterSize /\ f.clusterUsed < f.clusterBudget

\* lines 497-510: one obstacle of a cluster (five draws, six for an asteroid)
ClusterObstacleAt(r, cx, cy, clusterRadius, mods, depth) ==
  LET a  == RngAngle(r)
      d  == RngRange(Skip(r, 1), 0, clusterRadius)
      type == RngPick(Skip(r, 2),
                IF "MINEFIELD" \in mods
                THEN <<"asteroid", "debris", "mine", "mine">>
                ELSE <<"asteroid", "debris", "asteroid">>)
      r3 == Skip(r, 3)
  IN  [ r |-> IF type = "asteroid" THEN Skip(r3, 3) ELSE Skip(r3, 2),
        v |-> Obstacle(cx + (Cos(a) * d) \div 1000, cy + (Sin(a) * d) \div 1000,
                type,
                IF type = "asteroid" THEN RngInt(r3, 20, 60) ELSE RngInt(r3, 12, 25),
                RngAngle(Skip(r3, 1)), TRUE,
                IF type = "asteroid" THEN RngInt(Skip(r3, 2), 25, 60)
                ELSE IF type = "mine" THEN 6 ELSE 12,
                ObstacleDamage(type, depth)) ]

ClusterObstacle ==
  /\ pc = "clusterFill"
  /\ ClusterFillCond(loc)
  /\ LET o == ClusterObstacleAt(rng, loc.cx, loc.cy, loc.clusterRadius,
                                arg.opts.mods, Depth(arg.opts))
     IN  /\ loc' = [ loc EXCEPT !.obstacles = Append(loc.obstacles, o.v),
                                !.clusterUsed = loc.clusterUsed + 1,
                                !.i = loc.i + 1 ]
         /\ rng' = o.r
  /\ UNCHANGED << tune, packs, pc, arg, dens, zone, prev >>

ClusterEnd ==
  /\ pc = "clusterFill"
  /\ ~ClusterFillCond(loc)
  /\ loc' = [ budgetTotal |-> loc.budgetTotal, clusterBudget |-> loc.clusterBudget,
              clusterCount |-> loc.clusterCount, c |-> loc.c + 1,
              clusterUsed |-> loc.clusterUsed, obstacles |-> loc.obstacles ]
  /\ pc' = "clusters"
  /\ UNCHANGED << tune, packs, arg, rng, dens, zone, prev >>

\* line 516: the scatter budget is what the first two phases left
ClustersDone ==
  /\ pc = "clusters"
  /\ ~ClusterLoopCond(loc)
  /\ loc' = [ budgetTotal |-> loc.budgetTotal,
              scatterBudget |-> loc.budgetTotal - Len(loc.obstacles),
              i |-> 0, obstacles |-> loc.obstacles ]
  /\ pc' = "scatter"
  /\ UNCHANGED << tune, packs, arg, rng, dens, zone, prev >>

\* lines 518-529: one scattered obstacle (five draws, six for an asteroid)
ScatterObstacleAt(r, w, h, mods, depth) ==
  LET type == RngPick(r, IF "MINEFIELD" \in mods
                         THEN <<"asteroid", "debris", "mine", "mine">>
                         ELSE <<"asteroid", "debris">>)
      r3 == Skip(r, 3)
  IN  [ r |-> IF type = "asteroid" THEN Skip(r3, 3) ELSE Skip(r3, 2),
        v |-> Obstacle(RngRange(Skip(r, 1), 100, w - 100),
                RngRange(Skip(r, 2), 100, h - 100), type,
                IF type = "asteroid" THEN RngInt(r3, 25, 70) ELSE RngInt(r3, 15, 30),
                RngAngle(Skip(r3, 1)), TRUE,
                IF type = "asteroid" THEN RngInt(Skip(r3, 2), 25, 60)
                ELSE IF type = "mine" THEN 6 ELSE 12,
                ObstacleDamage(type, depth)) ]

ScatterObstacle ==
  /\ pc = "scatter"
  /\ loc.i < loc.scatterBudget
  /\ LET o == ScatterObstacleAt(rng, zone.width, zone.height,
                                arg.opts.mods, Depth(arg.opts))
     IN  /\ loc' = [ loc EXCEPT !.obstacles = Append(loc.obstacles, o.v),
                                !.i = loc.i + 1 ]
         /\ rng' = o.r
  /\ UNCHANGED << tune, packs, pc, arg, dens, zone, prev >>

\* Math.ceil(v * n / d) for v >= 0
CeilMul(v, n, d) == (v * n + d - 1) \div d

\* lines 536-543: chaos scaling of one obstacle
ChaosScaled(o) ==
  LET hp == IF o.hp # 0 THEN CeilMul(o.hp, 25, 10) ELSE o.hp
  IN  IF o.type = "mine"
      THEN [ o EXCEPT !.hp = hp, !.hunting = TRUE, !.damage = CeilMul(o.damage, 15, 10) ]
      ELSE [ o EXCEPT !.hp = hp ]

\* lines 548-557: poison area i; each makes three draws
PoisonArea(r, w, h) ==
  Obstacle(RngRange(r, 200, w - 200), RngRange(Skip(r, 1), 200, h - 200),
           "poison_area", RngInt(Skip(r, 2), 80, 160), 0, FALSE, 0, 0)

\* lines 533-561: difficulty scaling, then the list is returned
ObstaclesFinish(r, obstacles, w, h, options) ==
  IF options.difficulty = <<"chaos">>
  THEN LET poisonCount == RngInt(r, 3, 5)
       IN  [ r |-> Skip(r, 1 + 3 * poisonCount),
             v |-> [ k \in 1..Len(obstacles) |-> ChaosScaled(obstacles[k]) ]
                   \o [ k \in 1..poisonCount |->
                          PoisonArea(Skip(r, 1 + 3 * (k - 1)), w, h) ] ]
  ELSE [ r |-> r, v |-> obstacles ]

ObstaclesReturn ==
  /\ pc = "scatter"
  /\ ~(loc.i < loc.scatterBudget)
  /\ LET res == ObstaclesFinish(rng, loc.obstacles, zone.width, zone.height,
                                ObstacleOptions(arg.opts))
     IN  /\ zone' = [ zone EXCEPT !.obstacles = res.v ]
         /\ rng' = res.r
  /\ pc' = "decorations"
  /\ UNCHANGED << tune, packs, arg, dens, loc, prev >>

\* _getLandmarkTypes(biome)
LandmarkTypes(biome) ==
  CASE biome = "asteroid" ->
         <<"rock_formation", "ice_cluster", "ancient_marker", "dead_ship", "mining_rig">>
    [] biome = "station" ->
         <<"station_hull", "antenna_array", "cargo_pod", "solar_panel", "dead_ship">>
    [] OTHER ->
         <<"gas_cloud", "dead_ship", "ancient_marker", "comet_trail", "beacon_ruins">>

\* line 722-727: smallTypes[biome] || smallTypes['space']
SmallTypes(biome) ==
  CASE biome = "asteroid" -> <<"rock_small", "rock_tiny", "ice_shard", "metal_flake">>
    [] biome = "station" -> <<"panel_fragment", "wire_coil", "light_flicker", "spark">>
    [] OTHER -> <<"star_bright", "star_dim", "star_colored", "sparkle">>

\* lines 668-678: a dust cloud (seven draws); of a decoration the model
\* keeps the type and the position
DustCloud(r, w, h) ==
  [ type |-> "dust_cloud", x |-> RngRange(r, 0, w), y |-> RngRange(Skip(r, 1), 0, h) ]

\* lines 689-698: a nebula patch (six draws)
NebulaPatch(r, w, h) ==
  [ type |-> "nebula_patch", x |-> RngRange(r, 100, w - 100),
    y |-> RngRange(Skip(r, 1), 100, h - 100) ]

\* lines 705-714: a landmark (seven draws, the type first)
Landmark(r, biome, w, h) ==
  [ type |-> RngPick(r, LandmarkTypes(biome)),
    x |-> RngRange(Skip(r, 1), 200, w - 200),
    y |-> RngRange(Skip(r, 2), 200, h - 200) ]

\* lines 731-741: a small decoration (eight draws, the type first)
SmallDecoration(r, biome, w, h) ==
  [ type |-> RngPick(r, SmallTypes(biome)),
    x |-> RngRange(Skip(r, 1), 0, w), y |-> RngRange(Skip(r, 2), 0, h) ]

\* line 728: Math.min(maxDec - decorations.length, Math.floor(w * h * 0.0004))
SmallCount(maxDec, len, w, h) == Min(maxDec - len, AreaCount(w, h, 40000))

\* generateDecorations(rng, biome, w, h)
GenerateDecorations(r, biome, w, h, tn) ==
  LET maxDec == NumOr(tn.maxDecorationsPerZone, 3000)
      dustCount == RngInt(r, 4, 8)
      r1 == Skip(r, 1)
      dust == [ k \in 1..dustCount |-> DustCloud(Skip(r1, 7 * (k - 1)), w, h) ]
      r2 == Skip(r1, 7 * dustCount)
      nebulaCount == RngInt(r2, 2, 5)
      r3 == Skip(r2, 1)
      nebula == [ k \in 1..nebulaCount |-> NebulaPatch(Skip(r3, 6 * (k - 1)), w, h) ]
      r4 == Skip(r3, 6 * nebulaCount)
      landmarkCount == RngInt(r4, 3, 6)
      r5 == Skip(r4, 1)
      landmarks == [ k \in 1..landmarkCount |->
                       Landmark(Skip(r5, 7 * (k - 1)), biome, w, h) ]
      r6 == Skip(r5, 7 * landmarkCount)
      smallCount == SmallCount(maxDec, dustCount + nebulaCount + landmarkCount, w, h)
      small == [ k \in 1..smallCount |->
                   SmallDecoration(Skip(r6, 8 * (k - 1)), biome, w, h) ]
  IN  [ v |-> dust \o nebula \o landmarks \o small,
        r |-> Skip(r6, 8 * Max(smallCount, 0)) ]

Decorations ==
  /\ pc = "decorations"
  /\ LET res == GenerateDecorations(rng, zone.biome, zone.width, zone.height, tune)
     IN  /\ zone' = [ zone EXCEPT !.decorations = res.v ]
         /\ rng' = res.r
  /\ pc' = "pois"
  /\ UNCHANGED << tune, packs, arg, dens, loc, prev >>

\* ------------------------------------------------------------------------
\* generatePOIs and _createPOI, lines 855-1255
\* ------------------------------------------------------------------------
\* lines 864-868: the number of POIs (one draw)
PoiCount(r, w, h, depth) ==
  LET basePOIs == Max(2, ((w * h) \div 1000) \div 15000 + 1)
      maxPOIs  == Min(7, basePOIs + depth \div 15)
  IN  RngInt(r, Max(2, maxPOIs - 1), maxPOIs)

\* lines 913-932: way point i (0-based) of count, one draw
PathPoint(r, i, spawn, exit, w, h, count) ==
  LET baseX == spawn.x + ((exit.x - spawn.x) * (i + 1)) \div (count + 1)
      baseY == spawn.y + ((exit.y - spawn.y) * (i + 1)) \div (count + 1)
      perpX == -(exit.y - spawn.y)
      perpY == exit.x - spawn.x
      hy    == Hypot(perpX, perpY)
      perpLen == IF hy = 0 THEN 1 ELSE hy
      maxOffset == (Min(w, h) * 3) \div 10
      offset == RngRange(r, -maxOffset, maxOffset)
  IN  [ x |-> Max(200, Min(w - 200, baseX + (perpX * offset) \div perpLen)),
        y |-> Max(200, Min(h - 200, baseY + (perpY * offset) \div perpLen)) ]

\* _generatePathPoints(rng, spawn, exit, w, h, count)
GeneratePathPoints(r, spawn, exit, w, h, count) ==
  [ v |-> [ k \in 1..count |-> PathPoint(Skip(r, k - 1), k - 1, spawn, exit, w, h, count) ],
    r |-> Skip(r, count) ]

\* _getPOITypesForTier(actConfig, depth)
GetPOITypesForTier(depth) ==
  <<"guard_post", "treasure_cache", "ore_deposit">>
  \o (IF depth >= 5 THEN <<"ambush_zone", "salvage_wreck">> ELSE <<>>)
  \o (IF depth >= 10 THEN <<"elite_den", "crystal_cavern">> ELSE <<>>)
  \o (IF depth >= 20 THEN <<"defense_beacon", "void_rift">> ELSE <<>>)
  \o (IF depth >= 50 THEN <<"ancient_vault">> ELSE <<>>)

\* line 953: `poi_${index}_${type}`
PoiId(index, type) == "poi_" \o ToString(index) \o "_" \o type

\* an enemy of a POI, as _createPOI lists it
PoiEnemy(x, y, type, patrol, patrolRadius) ==
  [ x |-> x, y |-> y, type |-> type, patrol |-> patrol, patrolRadius |-> patrolRadius ]

\* the object _createPOI returns; reward is the reward type, <<>> for null
Poi(id, type, cx, cy, radius, reward, enemies, obstacles, triggered, cleared) ==
  [ id |-> id, type |-> type, x |-> cx, y |-> cy, radius |-> radius,
    reward |-> reward, enemies |-> enemies, obstacles |-> obstacles,
    triggered |-> triggered, cleared |-> cleared, collected |-> FALSE,
    hidden |-> FALSE, interactable |-> FALSE ]

\* x + cos(a) * d and y + sin(a) * d for a direction index a
PolarX(cx, a, d) == cx + (Cos(a) * d) \div 1000

PolarY(cy, a, d) == cy + (Sin(a) * d) \div 1000

\* a resource obstacle of a POI
ResourceObstacle(x, y, type, radius, rotation, hp, resourceType) ==
  [ Obstacle(x, y, type, radius, rotation, TRUE, hp, 0)
      EXCEPT !.resourceType = resourceType ]

\* lines 958-989: guard_post
GuardPost(r, id, cx, cy, pool) ==
  LET guardCount == RngInt(r, 4, 6)
      radius == RngInt(Skip(r, 1), 100, 160)
      r2 == Skip(r, 2)
      enemies == [ k \in 1..guardCount |->
                     LET a == ((k - 1) * NumDirs) \div guardCount
                     IN  PoiEnemy(PolarX(cx, a, radius), PolarY(cy, a, radius),
                                  RngPick(Skip(r2, k - 1), pool), "circle", 40) ]
      r3 == Skip(r2, guardCount)
      obstacles == [ k \in 1..3 |->
                       LET q == Skip(r3, 3 * (k - 1))
                           a == RngAngle(q)
                       IN  Obstacle(PolarX(cx, a, radius \div 2),
                                    PolarY(cy, a, radius \div 2), "debris",
                                    RngInt(Skip(q, 1), 20, 35),
                                    RngAngle(Skip(q, 2)), TRUE, 20, 0) ]
  IN  [ r |-> Skip(r3, 10),
        v |-> Poi(id, "guard_post", cx, cy, radius + 80, <<"loot_cache">>,
                  enemies, obstacles, FALSE, FALSE) ]

\* lines 993-1009: treasure_cache
TreasureCache(r, id, cx, cy, pool) ==
  LET hasGuard == RngChance(r, 40)
      r1 == Skip(r, 1)
      enemies == IF hasGuard
                 THEN << PoiEnemy(cx + RngRange(r1, -60, 60),
                                  cy + RngRange(Skip(r1, 1), -60, 60),
                                  RngPick(Skip(r1, 2), pool), "static", 30) >>
                 ELSE <<>>
  IN  [ r |-> Skip(r1, (IF hasGuard THEN 3 ELSE 0) + 2),
        v |-> Poi(id, "treasure_cache", cx, cy, 80, <<"loot_cache">>,
                  enemies, <<>>, FALSE, ~hasGuard) ]

\* lines 1013-1033: ambush_zone
AmbushZone(r, id, cx, cy, pool) ==
  LET count == RngInt(r, 5, 8)
      r1 == Skip(r, 1)
      enemies == [ k \in 1..count |->
                     LET q == Skip(r1, 4 * (k - 1))
                         a == RngAngle(q)
                         d == RngRange(Skip(q, 1), 80, 200)
                     IN  PoiEnemy(PolarX(cx, a, d), PolarY(cy, a, d),
                                  RngPick(Skip(q, 2), pool), "wander", 60) ]
  IN  [ r |-> Skip(r1, 4 * count + 2),
        v |-> [ Poi(id, "ambush_zone", cx, cy, 250, <<"cells">>,
                    enemies, <<>>, FALSE, FALSE) EXCEPT !.hidden = TRUE ] ]

\* lines 1037-1066: elite_den
EliteDen(r, id, cx, cy, pool, elitePool) ==
  LET elite == PoiEnemy(cx, cy, RngPick(r, elitePool), "circle", 80)
      minionCount == RngInt(Skip(r, 1), 2, 3)
      r2 == Skip(r, 2)
      minions == [ k \in 1..minionCount |->
                     LET q == Skip(r2, 2 * (k - 1))
                         a == RngAngle(q)
                     IN  PoiEnemy(PolarX(cx, a, 120), PolarY(cy, a, 120),
                                  RngPick(Skip(q, 1), pool), "circle", 50) ]
      r3 == Skip(r2, 2 * minionCount)
      wallCount == RngInt(r3, 4, 6)
      r4 == Skip(r3, 1)
      obstacles == [ k \in 1..wallCount |->
                       LET q == Skip(r4, 3 * (k - 1))
                           a == ((k - 1) * NumDirs) \div wallCount + RngRange(q, -1, 1)
                       IN  Obstacle(PolarX(cx, a, 200), PolarY(cy, a, 200), "asteroid",
                                    RngInt(Skip(q, 1), 35, 55),
                                    RngAngle(Skip(q, 2)), TRUE, 40, 0) ]
  IN  [ r |-> Skip(r4, 3 * wallCount + 2),
        v |-> Poi(id, "elite_den", cx, cy, 220, <<"loot_cache">>,
                  <<elite>> \o minions, obstacles, FALSE, FALSE) ]

\* lines 1070-1091: ore_deposit
OreDeposit(r, id, cx, cy) ==
  LET nodeCount == RngInt(r, 3, 5)
      r1 == Skip(r, 1)
      obstacles == [ k \in 1..nodeCount |->
                       LET q == Skip(r1, 5 * (k - 1))
                           a == RngAngle(q)
                           d == RngRange(Skip(q, 1), 30, 100)
                       IN  ResourceObstacle(PolarX(cx, a, d), PolarY(cy, a, d),
                             "ore_rich", RngInt(Skip(q, 2), 25, 50),
                             RngAngle(Skip(q, 4)), RngInt(Skip(q, 3), 30, 60), "scrap") ]
  IN  [ r |-> Skip(r1, 5 * nodeCount),
        v |-> Poi(id, "ore_deposit", cx, cy, 150, <<>>, <<>>, obstacles, TRUE, TRUE) ]

\* lines 1095-1127: crystal_cavern
CrystalCavern(r, id, cx, cy, pool) ==
  LET nodeCount == RngInt(r, 3, 4)
      r1 == Skip(r, 1)
      obstacles == [ k \in 1..nodeCount |->
                       LET q == Skip(r1, 5 * (k - 1))
                           a == ((k - 1) * NumDirs) \div nodeCount + RngRange(q, -1, 1)
                           d == RngRange(Skip(q, 1), 40, 90)
                       IN  ResourceObstacle(PolarX(cx, a, d), PolarY(cy, a, d),
                             "crystal_node", RngInt(Skip(q, 2), 20, 40),
                             RngAngle(Skip(q, 4)), RngInt(Skip(q, 3), 20, 45), "cells") ]
      r2 == Skip(r1, 5 * nodeCount)
      guarded == RngChance(r2, 50)
      r3 == Skip(r2, 1)
      enemies == IF guarded
                 THEN << PoiEnemy(cx + RngRange(r3, -80, 80),
                                  cy + RngRange(Skip(r3, 1), -80, 80),
                                  RngPick(Skip(r3, 2), pool), "circle", 60) >>
                 ELSE <<>>
  IN  [ r |-> IF guarded THEN Skip(r3, 3) ELSE r3,
        v |-> Poi(id, "crystal_cavern", cx, cy, 140, <<>>, enemies, obstacles,
                  TRUE, enemies = <<>>) ]

\* lines 1146-1154: the debris loop of a salvage wreck; its condition
\* i < rng.int(2, 4) draws on every test
RECURSIVE SalvageDebris(_, _, _, _, _)
SalvageDebris(r, i, cx, cy, acc) ==
  IF ~(i < RngInt(r, 2, 4)) THEN [ r |-> Skip(r, 1), v |-> acc ]
  ELSE LET a == RngAngle(Skip(r, 1))
       IN  SalvageDebris(Skip(r, 6), i + 1, cx, cy,
             Append(acc, Obstacle(PolarX(cx, a, RngRange(Skip(r, 2), 60, 120)),
                                  PolarY(cy, a, RngRange(Skip(r, 3), 60, 120)),
                                  "debris", RngInt(Skip(r, 4), 15, 30),
                                  RngAngle(Skip(r, 5)), TRUE, 12, 0)))

\* lines 1134-1161: salvage_wreck
SalvageWreck(r, id, cx, cy) ==
  LET hull == ResourceObstacle(cx, cy, "salvage_wreck", RngInt(r, 40, 65),
                               RngAngle(Skip(r, 2)), RngInt(Skip(r, 1), 50, 90), "mixed")
      debris == SalvageDebris(Skip(r, 3), 0, cx, cy, <<hull>>)
  IN  [ r |-> debris.r,
        v |-> Poi(id, "salvage_wreck", cx, cy, 150, <<>>, <<>>, debris.v, TRUE, TRUE) ]

\* lines 1165-1175: defense_beacon
DefenseBeacon(r, id, cx, cy) ==
  [ r |-> Skip(r, 3),
    v |-> [ Poi(id, "defense_beacon", cx, cy, 120, <<"loot_cache">>,
                <<>>, <<>>, FALSE, FALSE) EXCEPT !.interactable = TRUE ] ]

\* lines 1196-1203: the enemy loop of a void rift, i < rng.int(2, 4)
RECURSIVE RiftEnemies(_, _, _, _, _, _)
RiftEnemies(r, i, cx, cy, pool, acc) ==
  IF ~(i < RngInt(r, 2, 4)) THEN [ r |-> Skip(r, 1), v |-> acc ]
  ELSE LET a == RngAngle(Skip(r, 1))
       IN  RiftEnemies(Skip(r, 3), i + 1, cx, cy, pool,
             Append(acc, PoiEnemy(PolarX(cx, a, 180), PolarY(cy, a, 180),
                                  RngPick(Skip(r, 2), pool), "wander", 100)))

\* lines 1179-1211: void_rift
VoidRift(r, id, cx, cy, pool) ==
  LET nodeCount == RngInt(r, 2, 3)
      r1 == Skip(r, 1)
      obstacles == [ k \in 1..nodeCount |->
                       LET q == Skip(r1, 5 * (k - 1))
                           a == RngAngle(q)
                           d == RngRange(Skip(q, 1), 30, 80)
                       IN  ResourceObstacle(PolarX(cx, a, d), PolarY(cy, a, d),
                             "void_crystal", RngInt(Skip(q, 2), 20, 35),
                             RngAngle(Skip(q, 4)), RngInt(Skip(q, 3), 40, 70),
                             "voidShard") ]
      enemies == RiftEnemies(Skip(r1, 5 * nodeCount), 0, cx, cy, pool, <<>>)
  IN  [ r |-> enemies.r,
        v |-> Poi(id, "void_rift", cx, cy, 200, <<>>, enemies.v, obstacles,
                  FALSE, FALSE) ]

\* lines 1225-1232: the minion loop of an ancient vault, i < rng.int(4, 6)
RECURSIVE VaultMinions(_, _, _, _, _, _)
VaultMinions(r, i, cx, cy, pool, acc) ==
  IF ~(i < RngInt(r, 4, 6)) THEN [ r |-> Skip(r, 1), v |-> acc ]
  ELSE LET a == RngAngle(Skip(r, 1))
       IN  VaultMinions(Skip(r, 5), i + 1, cx, cy, pool,
             Append(acc, PoiEnemy(PolarX(cx, a, RngRange(Skip(r, 2), 100, 250)),
                                  PolarY(cy, a, RngRange(Skip(r, 3), 100, 250)),
                                  RngPick(Skip(r, 4), pool), "wander", 80)))

\* lines 1215-1251: ancient_vault
AncientVault(r, id, cx, cy, pool, elitePool) ==
  LET elites == [ k \in 1..2 |->
                    LET a == (IF k = 1 THEN -1 ELSE 1) * ((NumDirs * 3) \div 20)
                    IN  PoiEnemy(PolarX(cx, a, 150), PolarY(cy, a, 150),
                                 RngPick(Skip(r, k - 1), elitePool), "circle", 80) ]
      minions == VaultMinions(Skip(r, 2), 0, cx, cy, pool, elites)
      obstacles == [ k \in 1..8 |->
                       LET q == Skip(minions.r, 2 * (k - 1))
                           a == ((k - 1) * NumDirs) \div 8
                       IN  Obstacle(PolarX(cx, a, 280), PolarY(cy, a, 280), "asteroid",
                                    RngInt(q, 40, 60), RngAngle(Skip(q, 1)),
                                    TRUE, 60, 0) ]
  IN  [ r |-> Skip(minions.r, 16 + 3),
        v |-> Poi(id, "ancient_vault", cx, cy, 300, <<"loot_cache">>,
                  minions.v, obstacles, FALSE, FALSE) ]

\* _createPOI(rng, type, cx, cy, depth, actConfig, index)
CreatePOI(r, type, cx, cy, cfg, index) ==
  LET pool == EnemyPool(cfg)
      elitePool == ElitePool(cfg)
      id == PoiId(index, type)
  IN  CASE type = "guard_post"     -> GuardPost(r, id, cx, cy, pool)
        [] type = "treasure_cache" -> TreasureCache(r, id, cx, cy, pool)
        [] type = "ambush_zone"    -> AmbushZone(r, id, cx, cy, pool)
        [] type = "elite_den"      -> EliteDen(r, id, cx, cy, pool, elitePool)
        [] type = "ore_deposit"    -> OreDeposit(r, id, cx, cy)
        [] type = "crystal_cavern" -> CrystalCavern(r, id, cx, cy, pool)
        [] type = "salvage_wreck"  -> SalvageWreck(r, id, cx, cy)
        [] type = "defense_beacon" -> DefenseBeacon(r, id, cx, cy)
        [] type = "void_rift"      -> VoidRift(r, id, cx, cy, pool)
        [] OTHER                   -> AncientVault(r, id, cx, cy, pool, elitePool)

\* lines 884-890: a POI enemy as it is pushed onto zone.enemySpawns
PoiSpawn(e, id) ==
  [ x |-> e.x, y |-> e.y, type |-> e.type, patrol |-> e.patrol,
    patrolRadius |-> e.patrolRadius, active |-> FALSE, killed |-> FALSE,
    packId |-> "", poiId |-> id ]

\* lines 856-872: the POI count, the way points
POIsBegin ==
  /\ pc = "pois"
  /\ LET poiCount == PoiCount(rng, zone.width, zone.height, Depth(arg.opts))
         pts == GeneratePathPoints(Skip(rng, 1), zone.spawn, zone.exit,
                                   zone.width, zone.height, poiCount)
     IN  /\ loc' = [ pathPoints |-> pts.v, i |-> 0, pois |-> <<>> ]
         /\ rng' = pts.r
  /\ pc' = "poiLoop"
  /\ UNCHANGED << tune, packs, arg, dens, zone, prev >>

\* lines 874-902: one POI; its enemies and obstacles go onto the zone's lists
POIStep ==
  /\ pc = "poiLoop"
  /\ loc.i < Len(loc.pathPoints)
  /\ LET pt == loc.pathPoints[loc.i + 1]
         poiType == RngPick(rng, GetPOITypesForTier(Depth(arg.opts)))
         poi == CreatePOI(Skip(rng, 1), poiType, pt.x, pt.y, arg.act, loc.i)
     IN  /\ loc' = [ loc EXCEPT !.pois = Append(loc.pois, poi.v), !.i = loc.i + 1 ]
         /\ zone' = [ zone EXCEPT
              !.enemySpawns = zone.enemySpawns
                 \o [ k \in 1..Len(poi.v.enemies) |-> PoiSpawn(poi.v.enemies[k], poi.v.id) ],
              !.obstacles = zone.obstacles \o poi.v.obstacles ]
         /\ rng' = poi.r
  /\ UNCHANGED << tune, packs, pc, arg, dens, prev >>

\* line 904 and line 167: zone.pois = the list
POIsReturn ==
  /\ pc = "poiLoop"
  /\ ~(loc.i < Len(loc.pathPoints))
  /\ zone' = [ zone EXCEPT !.pois = loc.pois ]
  /\ pc' = "resourceNodes"
  /\ UNCHANGED << tune, packs, arg, rng, dens, loc, prev >>

\* ------------------------------------------------------------------------
\* generateResourceNodes, lines 1262-1326
\* ------------------------------------------------------------------------
\* lines 1294-1299 and 1350-1355: the weighted pick; roll -= weight, the
\* first entry that brings the roll to zero or below is picked, else the
\* first entry of the list
RECURSIVE PickWeighted(_, _, _)
PickWeighted(items, k, roll) ==
  IF k > Len(items) THEN items[1]
  ELSE LET rest == roll - items[k].weight
       IN  IF rest <= 0 THEN items[k] ELSE PickWeighted(items, k + 1, rest)

RECURSIVE TotalWeight(_, _)
TotalWeight(items, k) ==
  IF k > Len(items) THEN 0 ELSE items[k].weight + TotalWeight(items, k + 1)

\* lines 1272-1276
NodeTypes(depth) ==
  << [ type |-> "ore_rich", weight |-> 50, resource |-> "scrap" ],
     [ type |-> "crystal_node", weight |-> 25, resource |-> "cells" ] >>
  \o (IF depth >= 30
      THEN << [ type |-> "void_crystal", weight |-> 10, resource |-> "voidShard" ] >>
      ELSE <<>>)

\* the position test with the exit test left out
NodeRejectSpawnOnly(x, y, spawn, exit) == Closer(x, y, spawn.x, spawn.y, 300)

\* lines 1286-1287: a candidate position is rejected when it is closer than
\* 300 to the spawn point or closer than 200 to the exit
NodeReject(x, y, spawn, exit) ==
  \/ Closer(x, y, spawn.x, spawn.y, 300)
  \/ Closer(x, y, exit.x, exit.y, 200)

\* lines 1283-1290: up to 20 attempts, two draws each
RECURSIVE NodePosition(_, _, _, _, _, _)
NodePosition(r, attempt, w, h, spawn, exit) ==
  IF attempt >= 20 THEN [ valid |-> FALSE, x |-> 0, y |-> 0, r |-> r ]
  ELSE LET x == RngRange(r, 150, w - 150)
           y == RngRange(Skip(r, 1), 150, h - 150)
       IN  IF NodeReject(x, y, spawn, exit)
           THEN NodePosition(Skip(r, 2), attempt + 1, w, h, spawn, exit)
           ELSE [ valid |-> TRUE, x |-> x, y |-> y, r |-> Skip(r, 2) ]

\* line 1269: the node count (one draw)
ResourceNodesBegin ==
  /\ pc = "resourceNodes"
  /\ loc' = [ count |-> RngInt(rng, 3, Min(6, 3 + Depth(arg.opts) \div 15)),
              i |-> 0, nodes |-> <<>> ]
  /\ rng' = Skip(rng, 1)
  /\ pc' = "nodeLoop"
  /\ UNCHANGED << tune, packs, arg, dens, zone, prev >>

\* lines 1280-1322: one node; it also goes onto zone.obstacles
ResourceNodeStep ==
  /\ pc = "nodeLoop"
  /\ loc.i < loc.count
  /\ LET pos == NodePosition(rng, 0, zone.width, zone.height, zone.spawn, zone.exit)
         types == NodeTypes(Depth(arg.opts))
         picked == PickWeighted(types, 1, RngRange(pos.r, 0, TotalWeight(types, 1)))
         node == ResourceObstacle(pos.x, pos.y, picked.type,
                                  RngInt(Skip(pos.r, 1), 25, 50),
                                  RngAngle(Skip(pos.r, 3)),
                                  RngInt(Skip(pos.r, 2), 25, 55), picked.resource)
     IN  IF pos.valid
         THEN /\ loc' = [ loc EXCEPT !.nodes = Append(loc.nodes, node), !.i = loc.i + 1 ]
              /\ zone' = [ zone EXCEPT !.obstacles = Append(zone.obstacles, node) ]
              /\ rng' = Skip(pos.r, 4)
         ELSE /\ loc' = [ loc EXCEPT !.i = loc.i + 1 ]
              /\ zone' = zone
              /\ rng' = pos.r
  /\ UNCHANGED << tune, packs, pc, arg, dens, prev >>

\* line 1325 and line 171: zone.resourceNodes = the list
ResourceNodesReturn ==
  /\ pc = "nodeLoop"
  /\ ~(loc.i < loc.count)
  /\ zone' = [ zone EXCEPT !.resourceNodes = loc.nodes ]
  /\ pc' = "objective"
  /\ UNCHANGED << tune, packs, arg, rng, dens, loc, prev >>

\* ------------------------------------------------------------------------
\* generateObjective, lines 1331-1428
\* ------------------------------------------------------------------------
\* the objective table without the gate of lines 1343-1346
ObjectivesUngated(depth) ==
  << [ type |-> "exterminate", weight |-> 30 ],
     [ type |-> "survival",    weight |-> 20 ],
     [ type |-> "timetrial",   weight |-> 15 ],
     [ type |-> "corruption",  weight |-> 15 ],
     [ type |-> "lockdown",    weight |-> 20 ] >>

\* lines 1335-1346: the objective table; survival and corruption carry
\* weight 0 below depth 5
Objectives(depth) ==
  << [ type |-> "exterminate", weight |-> 30 ],
     [ type |-> "survival",    weight |-> IF depth < 5 THEN 0 ELSE 20 ],
     [ type |-> "timetrial",   weight |-> 15 ],
     [ type |-> "corruption",  weight |-> IF depth < 5 THEN 0 ELSE 15 ],
     [ type |-> "lockdown",    weight |-> 20 ] >>

\* the objective record; of the fields the model keeps those the run reads
Objective(type, target, exitLocked, generators) ==
  [ type |-> type, progress |-> 0, target |-> target, complete |-> FALSE,
    exitLocked |-> exitLocked, generators |-> generators, failed |-> FALSE ]

\* lines 1398-1412: generator i (0-based) of the three of a lockdown
Generator(r, i, w, h, depth) ==
  LET a == (i * NumDirs) \div 3 + RngRange(r, -1, 1)
      dist == (Min(w, h) * 3) \div 10
  IN  Obstacle(PolarX(w \div 2, a, dist), PolarY(h \div 2, a, dist),
               "generator", 30, 0, TRUE, 50 + depth * 5, 0)

\* generateObjective(rng, zone, depth): v is <<>> for null, gens are the
\* obstacles pushed onto zone.obstacles
GenerateObjective(r, z, depth) ==
  IF depth <= 2 THEN [ r |-> r, v |-> <<>>, gens |-> <<>> ]
  ELSE LET objectives == Objectives(depth)
           picked == PickWeighted(objectives, 1,
                                  RngRange(r, 0, TotalWeight(objectives, 1)))
           r1 == Skip(r, 1)
       IN  CASE picked.type = "exterminate" ->
                  [ r |-> r1, gens |-> <<>>,
                    v |-> << Objective("exterminate",
                               Max(5, ((Len(z.enemySpawns) + Len(z.eliteSpawns)) * 8) \div 10),
                               TRUE, <<>>) >> ]
             [] picked.type = "survival" ->
                  [ r |-> r1, gens |-> <<>>,
                    v |-> << Objective("survival", 30 + Min(depth, 50), TRUE, <<>>) >> ]
             [] picked.type = "timetrial" ->
                  [ r |-> r1, gens |-> <<>>,
                    v |-> << Objective("timetrial", 20 + z.width \div 100, FALSE, <<>>) >> ]
             [] picked.type = "corruption" ->
                  [ r |-> r1, gens |-> <<>>,
                    v |-> << Objective("corruption", 100, FALSE, <<>>) >> ]
             [] OTHER ->
                  LET gens == [ k \in 1..3 |->
                                  Generator(Skip(r1, k - 1), k - 1, z.width, z.height, depth) ]
                  IN  [ r |-> Skip(r1, 3), gens |-> gens,
                        v |-> << Objective("lockdown", 3, TRUE, gens) >> ]

\* line 175: zone.objective = this.generateObjective(rng, zone, depth)
ObjectiveStep ==
  /\ pc = "objective"
  /\ LET res == GenerateObjective(rng, zone, Depth(arg.opts))
     IN  /\ zone' = [ zone EXCEPT !.objective = res.v,
                                  !.obstacles = zone.obstacles \o res.gens ]
         /\ rng' = res.r
  /\ pc' = "branchExits"
  /\ UNCHANGED << tune, packs, arg, dens, loc, prev >>

\* ------------------------------------------------------------------------
\* generateBranchExits, lines 1433-1469
\* ------------------------------------------------------------------------
\* lines 1439-1447
BranchTypes ==
  << [ id |-> "safe",  modifiers |-> 0, isVault |-> FALSE ],
     [ id |-> "risky", modifiers |-> 1, isVault |-> FALSE ],
     [ id |-> "vault", modifiers |-> 2, isVault |-> TRUE ] >>

\* the vault is dropped by chance at every depth
GenerateBranchExitsAnyDepth(r, exit, depth) ==
  LET types == IF RngChance(r, 40) THEN SubSeq(BranchTypes, 1, 2) ELSE BranchTypes
      totalW == (Len(types) - 1) * 120
  IN  [ r |-> Skip(r, 1),
        v |-> [ k \in 1..Len(types) |->
                  LET offsetX == (k - 1) * 120 - totalW \div 2
                  IN  [ id |-> types[k].id, modifiers |-> types[k].modifiers,
                        isVault |-> types[k].isVault,
                        x |-> exit.x + offsetX,
                        y |-> exit.y + (Abs(offsetX) * 3) \div 10,
                        radius |-> 35 ] ] ]

\* generateBranchExits(rng, zone, depth)
GenerateBranchExits(r, exit, depth) ==
  LET dropVault == depth < 10 /\ RngChance(r, 40)
      types == IF dropVault THEN SubSeq(BranchTypes, 1, 2) ELSE BranchTypes
      totalW == (Len(types) - 1) * 120
  IN  [ r |-> IF depth < 10 THEN Skip(r, 1) ELSE r,
        v |-> [ k \in 1..Len(types) |->
                  LET offsetX == (k - 1) * 120 - totalW \div 2
                  IN  [ id |-> types[k].id, modifiers |-> types[k].modifiers,
                        isVault |-> types[k].isVault,
                        x |-> exit.x + offsetX,
                        y |-> exit.y + (Abs(offsetX) * 3) \div 10,
                        radius |-> 35 ] ] ]

\* lines 177-183: branch exits from depth 3 on, then the zone is returned
BranchExits ==
  /\ pc = "branchExits"
  /\ LET res == GenerateBranchExits(rng, zone.exit, Depth(arg.opts))
     IN  IF Depth(arg.opts) >= 3
         THEN /\ zone' = [ zone EXCEPT !.branchExits = res.v ]
              /\ rng' = res.r
         ELSE UNCHANGED << zone, rng >>
  /\ pc' = "done"
  /\ UNCHANGED << tune, packs, arg, dens, loc, prev >>

\* ------------------------------------------------------------------------
\* generateBossZone(actConfig, zoneSeed, options), lines 193-227
\* ------------------------------------------------------------------------
\* actConfig.boss || {}
BossCfg(cfg) ==
  IF cfg.boss = <<>> THEN [ arenaWidth |-> <<>>, arenaHeight |-> <<>>, type |-> <<>> ]
  ELSE cfg.boss[1]

\* actConfig.enemies?.bossPool || ['sentinel']
BossPool(cfg) == IF cfg.bossPool = <<>> THEN <<"sentinel">> ELSE cfg.bossPool

\* generateBossArenaObstacles(rng, w, h), lines 634-652: pillarCount pillars
\* on a ring, pillar i at angle i / pillarCount of the full turn
GenerateBossArenaObstacles(r, w, h) ==
  LET pillarCount == RngInt(r, 2, 4)
  IN  [ v |-> [ k \in 1..pillarCount |->
                  LET angle == ((k - 1) * NumDirs) \div pillarCount
                      dist  == RngRange(Skip(r, k), 200, 350)
                  IN  Obstacle(PolarX(w \div 2, angle, dist),
                               PolarY(h \div 2, angle, dist),
                               "pillar", 40, 0, FALSE, 0, 0) ],
        r |-> Skip(r, 1 + pillarCount) ]

\* the zone generateBossZone returns, with the generator after the call
GenerateBossZone(cfg, zoneSeed, tn, old) ==
  LET r0     == NewRng(zoneSeed, old)
      bc     == BossCfg(cfg)
      width  == OrDefault(bc.arenaWidth, 1200)
      height == OrDefault(bc.arenaHeight, 1000)
      typed  == bc.type # <<>>
      obs    == GenerateBossArenaObstacles(IF typed THEN r0 ELSE Skip(r0, 1),
                                           width, height)
      par    == GenerateParallax(obs.r, width, height, tn)
  IN  [ v |-> [ seed |-> zoneSeed, width |-> width, height |-> height,
                biome |-> cfg.biome, isBossZone |-> TRUE,
                spawn |-> [ x |-> width \div 2, y |-> height - 100 ],
                exit |-> <<>>,
                bossSpawn |-> [ x |-> width \div 2, y |-> 200,
                                type |-> IF typed THEN bc.type[1]
                                         ELSE RngPick(r0, BossPool(cfg)) ],
                enemySpawns |-> <<>>, eliteSpawns |-> <<>>,
                obstacles |-> obs.v, decorations |-> <<>>,
                parallax |-> par.v, pickups |-> <<>>, portals |-> <<>>,
                pois |-> <<>>, resourceNodes |-> <<>>,
                objective |-> <<>>, branchExits |-> <<>> ],
        r |-> par.r ]

\* generateBossZone is called and returns; it has no loop that depends on
\* the tables, so the call is one step
GenerateBossZoneCall(in) ==
  /\ pc \in { "idle", "done", "bossDone", "thrown" }
  /\ LET res == GenerateBossZone(in.act, in.seed, tune, rng)
     IN  /\ zone' = res.v
         /\ rng' = res.r
  /\ dens' = [ enemy |-> 0, elite |-> 0, obstacle |-> 0 ]
  /\ loc' = [ count |-> 0, i |-> 0, spawns |-> <<>> ]
  /\ prev' = <<>>
  /\ arg' = in
  /\ pc' = "bossDone"
  /\ UNCHANGED << tune, packs >>

Next ==
  \/ (\E in \in Inputs : GenerateCall(in)) /\ UNCHANGED << indexVars, gameVars >>
  \/ (\E in \in Inputs : GenerateBossZoneCall(in)) /\ UNCHANGED << indexVars, gameVars >>
  \/ EnemySpawnStep /\ UNCHANGED << indexVars, gameVars >>
  \/ EnemySpawnReturn /\ UNCHANGED << indexVars, gameVars >>
  \/ PackDirector /\ UNCHANGED << indexVars, gameVars >>
  \/ EliteSpawns /\ UNCHANGED << indexVars, gameVars >>
  \/ ObstaclesBegin /\ UNCHANGED << indexVars, gameVars >>
  \/ CorridorBegin /\ UNCHANGED << indexVars, gameVars >>
  \/ CorridorSegment /\ UNCHANGED << indexVars, gameVars >>
  \/ CorridorEnd /\ UNCHANGED << indexVars, gameVars >>
  \/ CorridorsDone /\ UNCHANGED << indexVars, gameVars >>
  \/ ClusterBegin /\ UNCHANGED << indexVars, gameVars >>
  \/ ClusterObstacle /\ UNCHANGED << indexVars, gameVars >>
  \/ ClusterEnd /\ UNCHANGED << indexVars, gameVars >>
  \/ ClustersDone /\ UNCHANGED << indexVars, gameVars >>
  \/ ScatterObstacle /\ UNCHANGED << indexVars, gameVars >>
  \/ ObstaclesReturn /\ UNCHANGED << indexVars, gameVars >>
  \/ Decorations /\ UNCHANGED << indexVars, gameVars >>
  \/ POIsBegin /\ UNCHANGED << indexVars, gameVars >>
  \/ POIStep /\ UNCHANGED << indexVars, gameVars >>
  \/ POIsReturn /\ UNCHANGED << indexVars, gameVars >>
  \/ ResourceNodesBegin /\ UNCHANGED << indexVars, gameVars >>
  \/ ResourceNodeStep /\ UNCHANGED << indexVars, gameVars >>
  \/ ResourceNodesReturn /\ UNCHANGED << indexVars, gameVars >>
  \/ ObjectiveStep /\ UNCHANGED << indexVars, gameVars >>
  \/ BranchExits /\ UNCHANGED << indexVars, gameVars >>

Spec == Init /\ [][Next]_vars

\* ========================================================================
\* SpatialHash (the listing in ROADMAP.md, lines 348-540)
\* ========================================================================
\* Entities are objects with x, y and the optional fields radius and size;
\* an absent field and the number 0 are both falsy and are both written 0.
\* The cell size is 128, so (v * invCell) floored is v \div 128.
\* ------------------------------------------------------------------------
\* SpatialHash.create(128), Bullets.js line 1360
CellSize == 128

\* the entity objects of the index runs
EntIds == { "a", "b" }

\* places an entity can be at: beside a cell border, across it, far away
Places == << [ x |-> 126, y |-> 126 ], [ x |-> 130, y |-> 126 ],
             [ x |-> 300, y |-> 40 ] >>

\* radius and size of an entity: negative, absent, small, several cells wide
Shapes == { [ radius |-> -5, size |-> 0 ], [ radius |-> 0, size |-> 0 ],
            [ radius |-> 0, size |-> 12 ], [ radius |-> 20, size |-> 0 ],
            [ radius |-> 140, size |-> 0 ] }

\* the queries of queryCircle: centre and radius
Queries ==
  { [ x |-> 126, y |-> 126, r |-> 0 ], [ x |-> 126, y |-> 126, r |-> 10 ],
    [ x |-> 120, y |-> 126, r |-> 4 ], [ x |-> 200, y |-> 100, r |-> 80 ],
    [ x |-> 300, y |-> 40, r |-> 1 ] }

\* bitwise exclusive or of two numbers below 2^n (a ^ 0 is a)
RECURSIVE XorBits(_, _, _)
XorBits(a, b, n) ==
  IF n = 0 THEN 0
  ELSE IF b = 0 THEN a
  ELSE ((a + b) % 2) + 2 * XorBits(a \div 2, b \div 2, n - 1)

\* lines 378, 399, 463: (cx << 16) ^ cy on 32-bit integers, as the pair of
\* its upper and lower 16 bits
CellKey(cx, cy) ==
  << XorBits(cx % 65536, (cy \div 65536) % 65536, 16), cy % 65536 >>

\* the keys of the cells cxMin..cxMax by cyMin..cyMax, in loop order
CellRange(cxMin, cxMax, cyMin, cyMax) ==
  LET nx == IF cxMax >= cxMin THEN cxMax - cxMin + 1 ELSE 0
      ny == IF cyMax >= cyMin THEN cyMax - cyMin + 1 ELSE 0
  IN  [ k \in 1..(nx * ny) |->
          CellKey(cxMin + ((k - 1) \div ny), cyMin + ((k - 1) % ny)) ]

\* line 385: entity.radius || entity.size || entity.r || 16; line 487: the
\* same with 0 as the last resort (no modelled entity has a field r)
EntityRadius(e, fallback) ==
  IF e.radius # 0 THEN e.radius ELSE IF e.size # 0 THEN e.size ELSE fallback

\* checkCollision, lines 503-504: a.radius || a.r || 16 (size is not read)
CollisionRadius(e) == IF e.radius # 0 THEN e.radius ELSE 16

\* _entityCells(grid, entity), lines 384-403
EntityCells(e) ==
  LET r == EntityRadius(e, 16)
  IN  CellRange((e.x - r) \div CellSize, (e.x + r) \div CellSize,
                (e.y - r) \div CellSize, (e.y + r) \div CellSize)

\* lines 413-420: the entity is added to the bucket of every key
RECURSIVE AddToBuckets(_, _, _, _)
AddToBuckets(cells, keys, k, id) ==
  IF k > Len(keys) THEN cells
  ELSE LET key == keys[k]
       IN  AddToBuckets(IF key \in DOMAIN cells
                          THEN [ cells EXCEPT ![key] = @ \cup { id } ]
                          ELSE cells @@ (key :> { id }),
                        keys, k + 1, id)

\* insert(grid, entity), lines 409-421
GridInsert(g, id, e) ==
  LET keys == EntityCells(e)
  IN  [ cells |-> AddToBuckets(g.cells, keys, 1, id),
        entityCells |-> [ i \in DOMAIN g.entityCells \cup { id } |->
                            IF i = id THEN keys ELSE g.entityCells[i] ] ]

\* lines 430-436: the entity leaves the bucket of every recorded key, and an
\* emptied bucket is deleted
RECURSIVE DropFromBuckets(_, _, _, _)
DropFromBuckets(cells, keys, k, id) ==
  IF k > Len(keys) THEN cells
  ELSE LET key == keys[k]
           left == cells[key] \ { id }
       IN  DropFromBuckets(
             IF key \notin DOMAIN cells THEN cells
             ELSE IF left = {} THEN [ c \in DOMAIN cells \ { key } |-> cells[c] ]
             ELSE [ cells EXCEPT ![key] = left ],
             keys, k + 1, id)

\* a remove that empties the index when it does not know the entity
GridRemoveUnknownClears(g, id) ==
  IF id \notin DOMAIN g.entityCells THEN EmptyGrid
  ELSE [ cells |-> DropFromBuckets(g.cells, g.entityCells[id], 1, id),
         entityCells |-> [ i \in DOMAIN g.entityCells \ { id } |->
                             g.entityCells[i] ] ]

\* remove(grid, entity), lines 426-438
GridRemove(g, id) ==
  IF id \notin DOMAIN g.entityCells THEN g
  ELSE [ cells |-> DropFromBuckets(g.cells, g.entityCells[id], 1, id),
         entityCells |-> [ i \in DOMAIN g.entityCells \ { id } |->
                             g.entityCells[i] ] ]

\* an update that leaves an entity the index does not know alone
GridUpdateKnownOnly(g, id, e) ==
  IF id \in DOMAIN g.entityCells THEN GridInsert(GridRemove(g, id), id, e) ELSE g

\* update(grid, entity), lines 444-447: remove, then insert
GridUpdate(g, id, e) == GridInsert(GridRemove(g, id), id, e)

\* query(grid, x, y, radius), lines 453-473: the union of the buckets of
\* the cells the query square touches
GridQuery(g, x, y, radius) ==
  LET keys == CellRange((x - radius) \div CellSize, (x + radius) \div CellSize,
                        (y - radius) \div CellSize, (y + radius) \div CellSize)
  IN  UNION { g.cells[keys[k]] : k \in { j \in 1..Len(keys) : keys[j] \in DOMAIN g.cells } }

\* lines 485-490: the distance test of queryCircle on one entity
InCircle(e, x, y, radius) ==
  LET dx == e.x - x
      dy == e.y - y
      maxDist == radius + EntityRadius(e, 0)
  IN  dx * dx + dy * dy <= maxDist * maxDist

\* queryCircle(grid, x, y, radius), lines 479-495
GridQueryCircle(g, es, x, y, radius) ==
  { id \in GridQuery(g, x, y, radius) : InCircle(es[id], x, y, radius) }

\* ------------------------------------------------------------------------
\* The index under its callers: entities are inserted, moved by the game,
\* updated, removed and queried in any order
\* ------------------------------------------------------------------------
\* the generator is at rest while the index is exercised
GeneratorIdle ==
  /\ tune = TuneAbsent
  /\ packs = <<>>
  /\ pc = "idle"
  /\ arg = <<>>
  /\ rng = [ seed |-> 0, n |-> 0 ]
  /\ dens = [ enemy |-> 0, elite |-> 0, obstacle |-> 0 ]
  /\ zone = NoZone
  /\ loc = [ count |-> 0, i |-> 0, spawns |-> <<>> ]
  /\ prev = <<>>

genVars == << tune, packs, pc, arg, rng, dens, zone, loc, prev >>

\* an entity object
Entity(place, shape) ==
  [ x |-> place.x, y |-> place.y, radius |-> shape.radius, size |-> shape.size ]

\* entity a has any shape and starts anywhere; entity b is an ordinary
\* enemy of radius 20
IndexInit ==
  /\ GeneratorIdle
  /\ GameIdle
  /\ \E sh \in Shapes, p \in 1..Len(Places), q \in 2..Len(Places) :
       ents = [ id \in EntIds |->
                  IF id = "a" THEN Entity(Places[p], sh)
                  ELSE Entity(Places[q], [ radius |-> 20, size |-> 0 ]) ]
  /\ grid = EmptyGrid
  /\ call = << >>

\* the record of a call: was the entity known to the index when it was made
Called(op, id) ==
  << [ op |-> op, id |-> id, known |-> id \in DOMAIN grid.entityCells,
       q |-> << >>, found |-> {} ] >>

\* the game moves an entity: its x and y change, the index is not told
MoveEntity(id, p) ==
  /\ ents[id].x # Places[p].x \/ ents[id].y # Places[p].y
  /\ ents' = [ ents EXCEPT ![id].x = Places[p].x, ![id].y = Places[p].y ]
  /\ call' = << >>
  /\ UNCHANGED << grid, genVars, gameVars >>

\* SpatialHash.insert(grid, entity)
Insert(id) ==
  /\ grid' = GridInsert(grid, id, ents[id])
  /\ call' = Called("insert", id)
  /\ UNCHANGED << ents, genVars, gameVars >>

\* SpatialHash.remove(grid, entity)
Remove(id) ==
  /\ grid' = GridRemove(grid, id)
  /\ call' = Called("remove", id)
  /\ UNCHANGED << ents, genVars, gameVars >>

\* SpatialHash.update(grid, entity)
Update(id) ==
  /\ grid' = GridUpdate(grid, id, ents[id])
  /\ call' = Called("update", id)
  /\ UNCHANGED << ents, genVars, gameVars >>

\* SpatialHash.clear(grid), lines 367-370
Clear ==
  /\ grid' = EmptyGrid
  /\ call' = << [ op |-> "clear", id |-> "", known |-> FALSE,
                  q |-> << >>, found |-> {} ] >>
  /\ UNCHANGED << ents, genVars, gameVars >>

\* SpatialHash.queryCircle(grid, x, y, radius)
QueryCircle(q) ==
  /\ call' = << [ op |-> "queryCircle", id |-> "", known |-> FALSE, q |-> << q >>,
                  found |-> GridQueryCircle(grid, ents, q.x, q.y, q.r) ] >>
  /\ UNCHANGED << ents, grid, genVars, gameVars >>

IndexNext ==
  \/ \E id \in EntIds, p \in 1..Len(Places) : MoveEntity(id, p)
  \/ \E id \in EntIds : Insert(id)
  \/ \E id \in EntIds : Remove(id)
  \/ \E id \in EntIds : Update(id)
  \/ Clear
  \/ \E q \in Queries : QueryCircle(q)

IndexSpec == IndexInit /\ [][IndexNext]_vars

\* ========================================================================
\* The run: World (Bullets.js lines 969-2360), State.run (State.js) and the
\* combat loop (main.js lines 186-240)
\* ========================================================================
\* Time is counted in frames of 0.05 s, the largest dt the loop passes on.
\* A frame is World.update, Player.update, Enemies.update, Bullets.update in
\* this order.  The player's input is the place the player is at after
\* Player.update, one of a few places of interest; the frames of the walk
\* there are not followed.  Enemies stay at their spawn place, and at most
\* one bullet hits in a frame.  Of a POI the three flags are followed (no
\* beacon is activated: the interact key is not pressed).  Pickups, hit
\* points and the hub screens are not part of the state.
\* ------------------------------------------------------------------------
\* calls of loadZone in one behaviour
MaxLoads == 2

\* frames a timed objective (survival, timetrial, corruption) is followed
MaxTimer == 2

\* enemies killed in one run
MaxKills == 4

\* main.js line 188: dt = Math.min(..., 0.05), one frame
TickLen == 1

\* frames per second
FramesPerSecond == 20

\* World.spawnRadius and World.despawnRadius, lines 978-979
SpawnRadius == 600

DespawnRadius == 1200

\* player.radius || 15, line 1294
PlayerRadius == 15

\* the zone index World.init starts a run at (lines 990-999: a depth
\* number or portal.startZone, less one)
StartZones == { 0, 2, 4, 5 }

\* the zone seeds that come up in a run
WorldSeeds == { 1, 3, 4 }

\* a long, thinly settled arena: its far end is out of the despawn radius
\* of the spawns near the start
ActLong ==
  [ ActSmall EXCEPT !.id = "long", !.width = <<2000>>, !.height = <<300>>,
                    !.enemyDensity = <<400>>, !.obstacleDensity = <<1000>> ]

\* the tier configurations a run is started with
WorldActs == { ActSmall, ActLong }

\* the runs that are followed: the small arena from every start zone, the
\* long arena from zone index 2
RunStarts ==
  { st \in WorldActs \X StartZones : st[1] = ActLong => st[2] = 2 }

\* the game is loaded with the capped exploration settings and no pack
\* table, and no run has been started
GameInit ==
  /\ tune = TuneCapped
  /\ packs = <<>>
  /\ pc = "idle"
  /\ arg = <<>>
  /\ rng = [ seed |-> 0, n |-> 0 ]
  /\ dens = [ enemy |-> 0, elite |-> 0, obstacle |-> 0 ]
  /\ zone = NoZone
  /\ loc = [ count |-> 0, i |-> 0, spawns |-> <<>> ]
  /\ prev = <<>>
  /\ IndexIdle
  /\ GameIdle

\* line 1086: currentAct.bossEvery || currentAct.zones || 5
BossInterval(act) == OrDefault(act.bossEvery, OrDefault(act.zones, 5))

\* line 1087
IsBossZone(depth, act) == depth % BossInterval(act) = 0

\* lines 1052-1107 of loadZone(index): the zone seed is createZoneSeed of an
\* act seed that World.init takes from the clock, so any seed can come up;
\* no modifier is unlocked (DepthRules is fresh); then the generator runs
LoadZoneCall(index, act, diff) ==
  \E seed \in WorldSeeds :
    LET depth == index + 1
        in == [ act |-> act, seed |-> seed,
                opts |-> [ depth |-> depth, mods |-> {}, difficulty |-> diff ] ]
    IN  IF IsBossZone(depth, act) THEN GenerateBossZoneCall(in)
        ELSE GenerateCall(in)

\* the generator's frame once the call has returned
GeneratorReturned ==
  /\ pc' = "idle"
  /\ arg' = <<>>
  /\ rng' = [ seed |-> 0, n |-> 0 ]
  /\ dens' = [ enemy |-> 0, elite |-> 0, obstacle |-> 0 ]
  /\ zone' = NoZone
  /\ loc' = [ count |-> 0, i |-> 0, spawns |-> <<>> ]
  /\ prev' = <<>>
  /\ UNCHANGED << tune, packs >>

\* the combat loop runs (main.js lines 195-216): a run has been started, a
\* zone is loaded and no call is in progress
InCombat ==
  /\ world.cont = "none"
  /\ run.active
  /\ world.currentZone # << >>

\* ------------------------------------------------------------------------
\* spawns and enemies
\* ------------------------------------------------------------------------
\* the spawn objects of a zone, in the order World.update visits them
EnemyRefs(z) == [ k \in 1..Len(z.enemySpawns) |-> << "enemy", k >> ]

EliteRefs(z) == [ k \in 1..Len(z.eliteSpawns) |-> << "elite", k >> ]

HasBossSpawn(z) == "bossSpawn" \in DOMAIN z

SpawnOf(z, ref) ==
  CASE ref[1] = "enemy" -> z.enemySpawns[ref[2]]
    [] ref[1] = "elite" -> z.eliteSpawns[ref[2]]
    [] OTHER -> z.bossSpawn

\* Enemies.spawn / createDefault (Enemies.js lines 23-67): the enemy object;
\* load and ref name the spawn object it belongs to (enemy.spawnRef)
NewEnemy(load, ref, sp) ==
  [ load |-> load, ref |-> ref, x |-> sp.x, y |-> sp.y, radius |-> 0,
    size |-> IF ref[1] = "boss" THEN 50 ELSE IF ref[1] = "elite" THEN 30 ELSE 22,
    isBoss |-> ref[1] = "boss", isElite |-> ref[1] = "elite", dead |-> FALSE ]

\* the squared distance test  Math.hypot(...) > d
Farther(ax, ay, bx, by, d) ==
  (ax - bx) * (ax - bx) + (ay - by) * (ay - by) > d * d

\* spawn checks that do not skip the killed spawn entries
SpawnChecksOfKilled(w, es, p) ==
  LET z      == w.currentZone[1]
      open(ref) == TRUE
      near(ref, d) == LET sp == SpawnOf(z, ref) IN Closer(p.x, p.y, sp.x, sp.y, d)
      far(ref) == LET sp == SpawnOf(z, ref)
                  IN  Farther(p.x, p.y, sp.x, sp.y, DespawnRadius)
      woken  == SelectSeq(EnemyRefs(z) \o EliteRefs(z),
                  LAMBDA ref : open(ref) /\ ref \notin w.active
                               /\ near(ref, SpawnRadius))
      \* lines 1211-1226: an active enemy spawn far away is despawned (its
      \* enemy is at home)
      gone   == { ref \in { EnemyRefs(z)[k] : k \in 1..Len(z.enemySpawns) } :
                    open(ref) /\ ref \in w.active /\ far(ref) }
      boss   == IF /\ HasBossSpawn(z)
                   /\ open(<< "boss" >>)
                   /\ << "boss" >> \notin w.active
                   /\ near(<< "boss" >>, (SpawnRadius * 3) \div 2)
                THEN << << "boss" >> >> ELSE << >>
      kept   == SelectSeq(es, LAMBDA e : ~ (e.load = w.loads /\ e.ref \in gone))
      all    == woken \o boss
  IN  [ w  |-> [ w EXCEPT !.active = (@ \ gone) \cup { all[k] : k \in 1..Len(all) } ],
        es |-> kept \o [ k \in 1..Len(all) |->
                           NewEnemy(w.loads, all[k], SpawnOf(z, all[k])) ] ]

\* lines 1200-1248: the spawn checks of one frame for the player at p
SpawnChecks(w, es, p) ==
  LET z      == w.currentZone[1]
      open(ref) == ref \notin w.killed
      near(ref, d) == LET sp == SpawnOf(z, ref) IN Closer(p.x, p.y, sp.x, sp.y, d)
      far(ref) == LET sp == SpawnOf(z, ref)
                  IN  Farther(p.x, p.y, sp.x, sp.y, DespawnRadius)
      woken  == SelectSeq(EnemyRefs(z) \o EliteRefs(z),
                  LAMBDA ref : open(ref) /\ ref \notin w.active
                               /\ near(ref, SpawnRadius))
      \* lines 1211-1226: an active enemy spawn far away is despawned (its
      \* enemy is at home)
      gone   == { ref \in { EnemyRefs(z)[k] : k \in 1..Len(z.enemySpawns) } :
                    open(ref) /\ ref \in w.active /\ far(ref) }
      boss   == IF /\ HasBossSpawn(z)
                   /\ open(<< "boss" >>)
                   /\ << "boss" >> \notin w.active
                   /\ near(<< "boss" >>, (SpawnRadius * 3) \div 2)
                THEN << << "boss" >> >> ELSE << >>
      kept   == SelectSeq(es, LAMBDA e : ~ (e.load = w.loads /\ e.ref \in gone))
      all    == woken \o boss
  IN  [ w  |-> [ w EXCEPT !.active = (@ \ gone) \cup { all[k] : k \in 1..Len(all) } ],
        es |-> kept \o [ k \in 1..Len(all) |->
                           NewEnemy(w.loads, all[k], SpawnOf(z, all[k])) ] ]

\* ------------------------------------------------------------------------
\* the exit, the portals and the objective
\* ------------------------------------------------------------------------
\* an exit no objective locks
ExitNeverLocked(r) == FALSE

\* line 1254: obj && obj.exitLocked && !obj.complete
ExitLocked(r) ==
  /\ r.objective # << >>
  /\ r.objective[1].exitLocked
  /\ ~ r.objective[1].complete

\* lines 1251-1274: 0 when no exit is reached, k for branch exit k, -1 for
\* the plain exit
ExitHit(z, r, p) ==
  IF z.exit = << >> \/ ExitLocked(r) THEN 0
  ELSE IF z.branchExits # << >>
  THEN LET hit == { k \in 1..Len(z.branchExits) :
                      Closer(p.x, p.y, z.branchExits[k].x, z.branchExits[k].y,
                             z.branchExits[k].radius + 15) }
       IN  IF hit = {} THEN 0 ELSE CHOOSE k \in hit : \A j \in hit : k <= j
  ELSE IF Closer(p.x, p.y, z.exit.x, z.exit.y, 50) THEN -1 ELSE 0

\* lines 2251-2260 of onExitReached: a time trial still running is completed
OnExitReached(r) ==
  IF /\ r.objective # << >>
     /\ r.objective[1].type = "timetrial"
     /\ ~ r.objective[1].failed
     /\ ~ r.objective[1].complete
  THEN [ r EXCEPT !.objective[1].complete = TRUE ]
  ELSE r

\* line 1279: the player stands in portal po
InPortal(po, p) == Closer(p.x, p.y, po.x, po.y, 60)

\* lines 1277-1282: the index of the first portal in reach that leads to
\* the next zone, 0 when there is none
NextZonePortal(portals, p) ==
  LET hit == { k \in 1..Len(portals) :
                 portals[k].destination = "nextZone" /\ InPortal(portals[k], p) }
  IN  IF hit = {} THEN 0 ELSE CHOOSE k \in hit : \A j \in hit : k <= j

\* lines 2290-2295 of onPortalEnter: a hub portal among portals[from..to]
\* is in reach
HubPortal(portals, p, from, to) ==
  \E k \in from..to : portals[k].destination = "hub" /\ InPortal(portals[k], p)

\* lines 2228-2243 of onBossKilled: the two portals
BossPortals(z) ==
  << [ x |-> z.width \div 2, y |-> z.height \div 2, destination |-> "nextZone" ],
     [ x |-> z.width \div 2 - 120, y |-> z.height \div 2 + 80,
       destination |-> "hub" ] >>

\* the objective is a timer
Timed(r) ==
  /\ r.objective # << >>
  /\ r.objective[1].type \in { "survival", "timetrial", "corruption" }

\* _updateObjective(dt), lines 2312-2355; progress of the timed objectives
\* is counted in frames (for corruption: frames at the objective's rate)
UpdateObjective(r, dt) ==
  IF r.objective = << >> \/ r.objective[1].complete THEN r
  ELSE LET obj == r.objective[1]
           more == obj.progress + dt
       IN  CASE obj.type = "survival" ->
                  [ r EXCEPT !.objective[1].progress = more,
                             !.objective[1].complete =
                                more >= obj.target * FramesPerSecond ]
             [] obj.type = "timetrial" ->
                  IF obj.failed THEN r
                  ELSE [ r EXCEPT !.objective[1].progress = more,
                                  !.objective[1].failed =
                                     more >= obj.target * FramesPerSecond ]
             [] obj.type = "corruption" ->
                  [ r EXCEPT !.objective[1].progress = more ]
             [] OTHER -> r

\* ------------------------------------------------------------------------
\* the POIs
\* ------------------------------------------------------------------------
\* lines 1416-1420: the spawn entry of POI enemy e (poiId and place within
\* 5 pixels) is killed, or there is no such entry
PoiEnemyDead(w, z, poi, e) ==
  LET found == { j \in 1..Len(z.enemySpawns) :
                   /\ z.enemySpawns[j].poiId = poi.id
                   /\ Abs(z.enemySpawns[j].x - e.x) < 5
                   /\ Abs(z.enemySpawns[j].y - e.y) < 5 }
  IN  found = {} \/ << "enemy", CHOOSE j \in found : \A i \in found : j <= i >>
                      \in w.killed

\* a POI that hands out its reward wherever it is entered
PoiCollectsUncleared(cleared, poi, p) ==
  poi.reward # << >> /\ Closer(p.x, p.y, poi.x, poi.y, 80)

\* line 1433: poi.cleared && !poi.collected && poi.reward && dist < 80
PoiCollects(cleared, poi, p) ==
  cleared /\ poi.reward # << >> /\ Closer(p.x, p.y, poi.x, poi.y, 80)

\* _updatePOIs(dt), lines 1379-1483, for the player at p: a POI not yet
\* collected is triggered, then checked for cleared, then collected, in one
\* pass; the flags of the zone's POIs are the sets triggered, cleared and
\* collected of their list indices
UpdatePOIs(w, p) ==
  LET z == w.currentZone[1]
      open == { k \in 1..Len(z.pois) : k \notin w.collected }
      trig(k) == \/ k \in w.triggered
                 \/ Closer(p.x, p.y, z.pois[k].x, z.pois[k].y, z.pois[k].radius)
      clr(k) == \/ k \in w.cleared
                \/ /\ trig(k)
                   /\ Len(z.pois[k].enemies) > 0
                   /\ \A i \in 1..Len(z.pois[k].enemies) :
                        PoiEnemyDead(w, z, z.pois[k], z.pois[k].enemies[i])
  IN  [ w EXCEPT !.triggered = @ \cup { k \in open : trig(k) },
                 !.cleared = @ \cup { k \in open : clr(k) },
                 !.collected = @ \cup { k \in open : PoiCollects(clr(k), z.pois[k], p) } ]

\* ------------------------------------------------------------------------
\* obstacles and the index
\* ------------------------------------------------------------------------
\* obs.radius || 30, line 1305
ObstacleRadius(o) == IF o.radius = 0 THEN 30 ELSE o.radius

\* lines 1297-1350, one obstacle: st holds the player and the destroyed
\* flags; a mine in reach detonates, any other obstacle pushes the player
\* out along the line of centres
Collide(st, z, k) ==
  LET o    == z.obstacles[k]
      dx   == st.p.x - o.x
      dy   == st.p.y - o.y
      dist == Hypot(dx, dy)
      minDist == PlayerRadius + ObstacleRadius(o)
  IN  IF k \in st.destroyed \/ o.type = "poison_area" THEN st
      ELSE IF ~ (dx * dx + dy * dy < minDist * minDist /\ dx * dx + dy * dy > 0)
      THEN st
      ELSE IF o.type = "mine" THEN [ st EXCEPT !.destroyed = @ \cup { k } ]
      ELSE [ st EXCEPT !.p = [ x |-> st.p.x + (dx * (minDist - dist)) \div dist,
                               y |-> st.p.y + (dy * (minDist - dist)) \div dist ] ]

\* the loop of line 1297, from the last obstacle to the first
RECURSIVE CollideAll(_, _, _)
CollideAll(st, z, k) ==
  IF k = 0 THEN st ELSE CollideAll(Collide(st, z, k), z, k - 1)

\* the objects the index holds are named by the load that made them
EnemyId(e) == << "enemy", e.load, e.ref >>

ObstacleId(load, k) == << "obstacle", load, k >>

\* an obstacle as the index reads it: x, y, radius, no size
ObstacleEntity(o) == [ x |-> o.x, y |-> o.y, radius |-> o.radius, size |-> 0 ]

\* an enemy as the index reads it
EnemyEntity(e) == [ x |-> e.x, y |-> e.y, radius |-> e.radius, size |-> e.size ]

\* lines 1357-1372: clear, then insert the living enemies and the standing
\* obstacles of the current zone.  The index is empty after clear and no
\* object is inserted twice, so every insert records the cells of its
\* object and adds the object to their buckets (GridInsert), in any order
Rebuild(w, es) ==
  LET z == w.currentZone[1]
      enemyCells ==
        { << EnemyId(es[k]), EntityCells(EnemyEntity(es[k])) >> :
            k \in { j \in 1..Len(es) : ~ es[j].dead } }
      obstacleCells ==
        { << ObstacleId(w.loads, k), EntityCells(ObstacleEntity(z.obstacles[k])) >> :
            k \in { j \in 1..Len(z.obstacles) : j \notin w.destroyed } }
  IN  CHOOSE g \in
        { [ cells |-> [ key \in keys |->
                          { pr[1] : pr \in { q \in pairs :
                                               \E k \in 1..Len(q[2]) : q[2][k] = key } } ],
            entityCells |-> [ id \in { pr[1] : pr \in pairs } |->
                                (CHOOSE pr \in pairs : pr[1] = id)[2] ] ] :
            pairs \in { enemyCells \cup obstacleCells },
            keys \in { UNION { { pr[2][k] : k \in 1..Len(pr[2]) } :
                                pr \in enemyCells \cup obstacleCells } } } : TRUE

\* lines 1285-1372: World.update from the POI update to the end
FinishUpdate(w, r, es, p, dt) ==
  LET z  == w.currentZone[1]
      st == CollideAll([ p |-> p, destroyed |-> w.destroyed ], z, Len(z.obstacles))
      w1 == [ UpdatePOIs(w, p) EXCEPT !.destroyed = st.destroyed ]
  IN  [ w |-> w1, r |-> UpdateObjective(r, dt), p |-> st.p,
        g |-> Rebuild(w1, es) ]

\* ------------------------------------------------------------------------
\* the handlers
\* ------------------------------------------------------------------------
\* startAct / startPortalDiff (main.js lines 930-950, 1028-1040), chosen in
\* the hub: resetRun (State.js lines 203-235), then World.init (lines
\* 983-1034) up to the call of the generator in loadZone
StartRun(act, startZone) ==
  /\ world.cont = "none"
  /\ world.scene = "hub"
  /\ world.phase = "world"
  /\ world.loads < MaxLoads
  /\ run' = [ ResetRunValue EXCEPT !.active = TRUE ]
  /\ stEnemies' = << >>
  /\ world' = [ world EXCEPT !.currentAct = << act >>, !.zoneIndex = startZone,
                             !.scene = "combat", !.loads = @ + 1,
                             !.cont = "init", !.loading = startZone ]
  /\ LoadZoneCall(startZone, act, "normal")
  /\ UNCHANGED << indexVars, player >>

\* World.update(dt), lines 1194-1373, for the frame that does not leave the
\* zone, and up to the call of the generator for the frame that does
WorldUpdate ==
  /\ InCombat
  /\ world.scene = "combat"
  /\ world.phase = "world"
  /\ Timed(run) => run.objective[1].progress < MaxTimer
  /\ \E sc \in { SpawnChecks(world, stEnemies, player) } :
       LET z   == world.currentZone[1]
           hit == ExitHit(z, run, player)
           po  == NextZonePortal(world.portals, player)
       IN  IF hit # 0
           THEN \* lines 1258-1272: onExitReached, which calls loadZone
                /\ world.loads < MaxLoads
                /\ run' = [ OnExitReached(run) EXCEPT
                              !.nextRoute = IF hit > 0 THEN << z.branchExits[hit] >>
                                            ELSE @ ]
                /\ stEnemies' = sc.es
                /\ world' = [ sc.w EXCEPT !.cont = IF hit > 0 THEN "branch" ELSE "exit",
                                          !.loading = world.zoneIndex + 1,
                                          !.loads = @ + 1, !.dt = TickLen ]
                /\ LoadZoneCall(world.zoneIndex + 1, world.currentAct[1], run.difficulty)
                /\ UNCHANGED << indexVars, player >>
           ELSE IF po # 0
           THEN \* lines 2296-2301: onPortalEnter, which calls loadZone
                /\ world.loads < MaxLoads
                /\ stEnemies' = sc.es
                /\ world' = [ sc.w EXCEPT
                              !.scene = IF HubPortal(world.portals, player, 1, po - 1)
                                        THEN "hub" ELSE @,
                              !.cont = "portal",
                              !.rest = SubSeq(world.portals, po + 1, Len(world.portals)),
                              !.loading = world.zoneIndex + 1,
                              !.loads = @ + 1, !.dt = TickLen ]
                /\ LoadZoneCall(world.zoneIndex + 1, world.currentAct[1], run.difficulty)
                /\ UNCHANGED << run, indexVars, player >>
           ELSE \E w2 \in { [ sc.w EXCEPT
                                !.scene = IF HubPortal(world.portals, player, 1,
                                                       Len(world.portals))
                                          THEN "hub" ELSE @ ] } :
                  \E f \in { FinishUpdate(w2, run, sc.es, player, TickLen) } :
                    /\ world' = [ f.w EXCEPT !.phase = "player" ]
                    /\ run' = f.r
                    /\ player' = f.p
                    /\ stEnemies' = sc.es
                    /\ grid' = f.g
                    /\ UNCHANGED << ents, call, genVars >>

\* loadZone from line 1109 to its end, and then the caller: World.init
\* returns; World.update returns at once after a branch exit (line 1265)
\* and runs on to its end after the plain exit or a portal
LoadZoneReturn ==
  /\ world.cont # "none"
  /\ pc \in { "done", "bossDone" }
  /\ LET z  == zone
         w1 == [ world EXCEPT !.currentZone = << z >>, !.zoneIndex = world.loading,
                              !.active = {}, !.killed = {}, !.destroyed = {},
                              !.triggered = { k \in 1..Len(z.pois) : z.pois[k].triggered },
                              !.cleared = { k \in 1..Len(z.pois) : z.pois[k].cleared },
                              !.collected = {},
                              !.portals = << >>, !.cont = "none", !.loading = 0,
                              !.dt = 0, !.rest = << >> ]
         r1 == [ run EXCEPT !.objective = z.objective, !.nextRoute = << >> ]
     IN  IF world.cont \in { "init", "branch" }
         THEN /\ world' = [ w1 EXCEPT !.phase = IF world.cont = "init"
                                                THEN "world" ELSE "player" ]
              /\ run' = r1
              /\ player' = z.spawn
              /\ UNCHANGED << stEnemies, grid >>
         ELSE \E w2 \in { [ w1 EXCEPT
                              !.scene = IF /\ world.cont = "portal"
                                           /\ HubPortal(world.rest, z.spawn, 1,
                                                        Len(world.rest))
                                        THEN "hub" ELSE @ ] } :
                \E f \in { FinishUpdate(w2, r1, stEnemies, z.spawn, world.dt) } :
                  /\ world' = [ f.w EXCEPT !.phase = "player" ]
                  /\ run' = f.r
                  /\ player' = f.p
                  /\ grid' = f.g
                  /\ UNCHANGED stEnemies
  /\ GeneratorReturned
  /\ UNCHANGED << ents, call >>

\* lines 454-460 of Bullets.onEnemyKilled
StreakOnKill(s) ==
  LET count == s.count + 1
  IN  [ count |-> count, timer |-> 0, best |-> Max(s.best, count),
        xpMult |-> Min(30, 10 + (count - 1)),
        lootMult |-> Min(200, 100 + (count - 1) * 5) ]

\* Bullets.onEnemyKilled(killData), lines 448-546, for an enemy (which is no
\* generator): the streak and the progress of the objective
OnEnemyKilled(r) ==
  LET r1 == IF r.streak # << >> THEN [ r EXCEPT !.streak[1] = StreakOnKill(@) ]
            ELSE r
  IN  IF /\ r1.objective # << >>
         /\ ~ r1.objective[1].complete
         /\ r1.objective[1].type = "exterminate"
      THEN [ r1 EXCEPT !.objective[1].progress = @ + 1,
                       !.objective[1].complete =
                          r1.objective[1].progress + 1 >= r1.objective[1].target ]
      ELSE r1

\* the enemies a bullet can hit: alive and in the published index
\* (Bullets.js lines 272-274)
Hittable ==
  { i \in 1..Len(stEnemies) :
      ~ stEnemies[i].dead /\ EnemyId(stEnemies[i]) \in DOMAIN grid.entityCells }

\* a bullet takes the last hit points of an enemy (the first one that can
\* be hit): Enemies.kill (Enemies.js lines 888-898), World.onEnemyKilled
\* (lines 2212-2222) with onBossKilled, then Bullets.onEnemyKilled
EnemyKilled ==
  /\ InCombat
  /\ world.phase = "bullets"
  /\ run.kills < MaxKills
  /\ Hittable # {}
  /\ LET i    == CHOOSE i \in Hittable : \A j \in Hittable : i <= j
         e    == stEnemies[i]
         z    == world.currentZone[1]
         here == e.load = world.loads
         w0   == [ world EXCEPT !.phase = "world" ]
         w1   == IF here
                 THEN [ w0 EXCEPT !.killed = @ \cup { e.ref },
                                  !.active = @ \ { e.ref } ]
                 ELSE w0
     IN  /\ stEnemies' = [ stEnemies EXCEPT ![i].dead = TRUE ]
         /\ world' = IF e.isBoss /\ HasBossSpawn(z)
                     THEN [ w1 EXCEPT !.portals = @ \o BossPortals(z) ]
                     ELSE w1
         /\ run' = OnEnemyKilled([ run EXCEPT !.kills = @ + 1 ])
  /\ UNCHANGED << player, indexVars, genVars >>

\* Enemies.update, line 295: the dead enemies leave State.enemies
EnemiesUpdate ==
  /\ InCombat
  /\ world.phase = "enemies"
  /\ stEnemies' = SelectSeq(stEnemies, LAMBDA e : ~ e.dead)
  /\ world' = [ world EXCEPT !.phase = "bullets" ]
  /\ UNCHANGED << run, player, indexVars, genVars >>

\* Bullets.update in a frame in which no bullet hits
BulletsUpdate ==
  /\ InCombat
  /\ world.phase = "bullets"
  /\ world' = [ world EXCEPT !.phase = "world" ]
  /\ UNCHANGED << run, stEnemies, player, indexVars, genVars >>

\* the obstacles a bullet can destroy: standing, destructible or a mine, of
\* the current zone and in the published index (Bullets.js lines 69-80);
\* the generators are taken in list order, and of the other obstacles only
\* the first is followed
Breakable ==
  LET z   == world.currentZone[1]
      isGen(k) == z.obstacles[k].type = "generator"
      can == { k \in 1..Len(z.obstacles) :
                 /\ k \notin world.destroyed
                 /\ z.obstacles[k].destructible \/ z.obstacles[k].type = "mine"
                 /\ ObstacleId(world.loads, k) \in DOMAIN grid.entityCells }
      gens  == { k \in can : isGen(k) }
      plain == { k \in can : ~ isGen(k) /\ \A j \in world.destroyed : isGen(j) }
  IN  { k \in gens : \A j \in gens : k <= j }
        \cup { k \in plain : \A j \in plain : k <= j }

\* a lockdown that counts every obstacle destroyed
LockdownCountsAll(r, o) ==
  IF /\ r.objective # << >>
     /\ r.objective[1].type = "lockdown"
     /\ ~ r.objective[1].complete
  THEN [ r EXCEPT !.objective[1].progress = @ + 1,
                  !.objective[1].complete =
                     r.objective[1].progress + 1 >= r.objective[1].target ]
  ELSE r

\* Bullets.js lines 146-159: the destroyed obstacle o is a generator and
\* the lockdown is not complete
LockdownProgress(r, o) ==
  IF /\ o.type = "generator"
     /\ r.objective # << >>
     /\ r.objective[1].type = "lockdown"
     /\ ~ r.objective[1].complete
  THEN [ r EXCEPT !.objective[1].progress = @ + 1,
                  !.objective[1].complete =
                     r.objective[1].progress + 1 >= r.objective[1].target ]
  ELSE r

\* a bullet detonates a mine or takes the last hit points of an obstacle
\* (Bullets.js lines 78-161); a generator counts for the lockdown
ObstacleDestroyed ==
  /\ InCombat
  /\ world.phase = "bullets"
  /\ \E k \in Breakable :
       /\ world' = [ world EXCEPT !.destroyed = @ \cup { k }, !.phase = "world" ]
       /\ run' = LockdownProgress(run, world.currentZone[1].obstacles[k])
  /\ UNCHANGED << stEnemies, player, indexVars, genVars >>

\* Player.update lines 91-106: the streak decays after 3.5 s without a kill
StreakDecay(r, dt) ==
  IF r.streak = << >> \/ r.streak[1].count = 0 THEN r
  ELSE IF 2 * (r.streak[1].timer + dt) > 7 * FramesPerSecond
  THEN [ r EXCEPT !.streak[1].count = 0, !.streak[1].timer = 0,
                  !.streak[1].xpMult = 10, !.streak[1].lootMult = 100 ]
  ELSE [ r EXCEPT !.streak[1].timer = @ + dt ]

\* the places the player is at after Player.update: where the player was,
\* the spawn, the exit, the first branch exit, the POIs that hold a reward
\* and the portals of the current zone
Targets ==
  LET z == world.currentZone[1]
  IN  { player, z.spawn }
        \cup (IF z.exit = << >> THEN {} ELSE { z.exit })
        \cup { [ x |-> z.branchExits[k].x, y |-> z.branchExits[k].y ] :
                 k \in 1..Min(1, Len(z.branchExits)) }
        \cup { [ x |-> z.pois[k].x, y |-> z.pois[k].y ] :
                 k \in { j \in 1..Len(z.pois) : z.pois[j].reward # << >> } }
        \cup { [ x |-> world.portals[k].x, y |-> world.portals[k].y ] :
                 k \in 1..Len(world.portals) }

\* Player.update (part_001 lines 17-106): the move to place t, clamped to
\* the zone with the margin p.radius + 5, and the decay of the streak
PlayerUpdate ==
  /\ InCombat
  /\ world.phase = "player"
  /\ \E t \in Targets :
       LET z == world.currentZone[1]
           margin == PlayerRadius + 5
       IN  player' = [ x |-> Max(margin, Min(z.width - margin, t.x)),
                       y |-> Max(margin, Min(z.height - margin, t.y)) ]
  /\ run' = StreakDecay(run, TickLen)
  /\ world' = [ world EXCEPT !.phase = "enemies" ]
  /\ UNCHANGED << stEnemies, indexVars, genVars >>

\* one step of a running generate call
GeneratorStep ==
  \/ EnemySpawnStep \/ EnemySpawnReturn \/ PackDirector \/ EliteSpawns
  \/ ObstaclesBegin \/ CorridorBegin \/ CorridorSegment \/ CorridorEnd
  \/ CorridorsDone \/ ClusterBegin \/ ClusterObstacle \/ ClusterEnd
  \/ ClustersDone \/ ScatterObstacle \/ ObstaclesReturn \/ Decorations
  \/ POIsBegin \/ POIStep \/ POIsReturn \/ ResourceNodesBegin
  \/ ResourceNodeStep \/ ResourceNodesReturn \/ ObjectiveStep \/ BranchExits

GameNext ==
  \/ \E st \in RunStarts : StartRun(st[1], st[2])
  \/ GeneratorStep /\ UNCHANGED << indexVars, gameVars >>
  \/ LoadZoneReturn
  \/ WorldUpdate
  \/ ObstacleDestroyed
  \/ EnemyKilled
  \/ EnemiesUpdate
  \/ BulletsUpdate
  \/ PlayerUpdate

GameSpec == GameInit /\ [][GameNext]_vars

\* ------------------------------------------------------------------------
\* Properties
\* ------------------------------------------------------------------------
\* lines 272-275: the configured minimum distances of enemy placement
MinDistFromSpawn(tn) == NumOr(tn.enemySpawnMinDistFromSpawn, 300)

MinDistFromExit(tn) == NumOr(tn.enemySpawnMinDistFromExit, 200)

MinDistBetween(tn) == NumOr(tn.enemySpawnMinDistBetween, 150)

\* every entry of list keeps dS from the spawn point, dE from the exit and
\* dB from every other entry
KeepsDistances(list, z, dS, dE, dB) ==
  \A a \in 1..Len(list) :
    /\ ~Closer(list[a].x, list[a].y, z.spawn.x, z.spawn.y, dS)
    /\ ~Closer(list[a].x, list[a].y, z.exit.x, z.exit.y, dE)
    /\ \A b \in 1..Len(list) :
         a # b => ~Closer(list[a].x, list[a].y, list[b].x, list[b].y, dB)

EnemyCapRespected ==
  pc = "done" => Len(zone.enemySpawns) <= NumOr(tune.maxEnemySpawnsPerZone, 120)

\* C3: the Zone generate returns has at most maxObstaclesPerZone (default
\* 1200) obstacles.
ObstacleCapRespected ==
  pc = "done" => Len(zone.obstacles) <= NumOr(tune.maxObstaclesPerZone, 1200)

\* C4: the list generateDecorations returns has at most
\* maxDecorationsPerZone (default 3000) entries.
DecorationCapRespected ==
  pc \in { "pois", "poiLoop", "resourceNodes", "nodeLoop", "objective",
           "branchExits", "done" }
    => Len(zone.decorations) <= NumOr(tune.maxDecorationsPerZone, 3000)

\* C5: applyPackDirector returns at most as many spawns as it was given.
PackDirectorAddsNoSpawn ==
  [][pc = "packDirector" => Len(zone'.enemySpawns) <= Len(zone.enemySpawns)]_vars

\* C6: every enemy spawn of the returned Zone keeps the configured minimum
\* distances from the spawn point, from the exit and from every other enemy
\* spawn.
EnemySpawnsKeepDistance ==
  pc = "done" => KeepsDistances(zone.enemySpawns, zone, MinDistFromSpawn(tune),
                                MinDistFromExit(tune), MinDistBetween(tune))

\* C7: no elite spawn is closer than the minimum distance to the spawn
\* point, to the exit or to another elite spawn.
EliteSpawnsKeepDistance ==
  pc = "done" => KeepsDistances(zone.eliteSpawns, zone, MinDistFromSpawn(tune),
                                MinDistFromExit(tune), MinDistBetween(tune))

EliteCapRespected ==
  pc \notin { "idle", "enemySpawns", "packDirector", "eliteSpawns" }
    => Len(zone.eliteSpawns) <= NumOr(tune.maxEliteSpawnsPerZone, 8)

\* C10: generateEnemySpawns terminates: with a budget of count every
\* iteration of its loop proposes one candidate and advances i, i never
\* passes 3 * count, no iteration starts once count spawns are accepted, and
\* the list is returned as it stands, with fewer than count spawns only when
\* all 3 * count proposals are used up.
EnemyPlacementBounded ==
  [][pc = "enemySpawns" =>
       /\ loc.i <= 3 * loc.count
       /\ Len(loc.spawns) <= loc.count
       /\ (pc' = "enemySpawns" /\ loc' # loc =>
             /\ loc'.i = loc.i + 1
             /\ Len(loc.spawns) < loc.count
             /\ Len(loc'.spawns) <= Len(loc.spawns) + 1)
       /\ (pc' = "packDirector" =>
             /\ zone'.enemySpawns = loc.spawns
             /\ (Len(loc.spawns) = loc.count \/ loc.i = 3 * loc.count))]_vars

\* the loop gave up: all 3 * count proposals were made and fewer than count
\* spawns were accepted and returned
EnemyPlacementWitness ==
  /\ pc = "packDirector" /\ loc.count > 0
  /\ loc.i = 3 * loc.count
  /\ Len(zone.enemySpawns) < loc.count

\* C11: whatever was inserted and whatever is asked, queryCircle returns
\* exactly the inserted entities a scan of all of them selects with
\* dist <= r + entityRadius, no entity more and no entity less (every
\* inserted entity still being where it was when it was inserted)
QueryCircleIsExact ==
  (/\ call # << >>
   /\ call[1].op = "queryCircle"
   /\ \A id \in DOMAIN grid.entityCells : grid.entityCells[id] = EntityCells(ents[id]))
  => LET q == call[1].q[1]
     IN  call[1].found =
           { id \in DOMAIN grid.entityCells : InCircle(ents[id], q.x, q.y, q.r) }

\* C12: an entity the index has removed (or never held) is in no bucket,
\* so no query returns it, whatever inserts and updates came before
RemovedEntityIsGone ==
  \A id \in EntIds :
    id \notin DOMAIN grid.entityCells
      => \A key \in DOMAIN grid.cells : id \notin grid.cells[key]

\* C13 as stated: update of an entity the index never held changes neither
\* the buckets nor the recorded cell lists
UpdateOfUnknownIsNoOp ==
  [][ \A id \in EntIds :
        (Update(id) /\ id \notin DOMAIN grid.entityCells) => grid' = grid ]_vars

\* C13 as amended: update of an entity the index does not hold inserts it:
\* afterwards the index records exactly the cells the entity occupies and
\* each of their buckets holds it; remove of such an entity changes nothing
UpdateOfUnknownInserts ==
  [][ \A id \in EntIds :
        id \notin DOMAIN grid.entityCells
          => /\ Update(id) =>
                  /\ id \in DOMAIN grid'.entityCells
                  /\ grid'.entityCells[id] = EntityCells(ents[id])
                  /\ \A k \in 1..Len(EntityCells(ents[id])) :
                       /\ EntityCells(ents[id])[k] \in DOMAIN grid'.cells
                       /\ id \in grid'.cells[EntityCells(ents[id])[k]]
             /\ Remove(id) => grid' = grid ]_vars

UpdateOfUnknownWitness ==
  /\ call # << >>
  /\ call[1].op = "update"
  /\ ~ call[1].known
  /\ call[1].id \in DOMAIN grid.entityCells
  /\ Len(grid.entityCells[call[1].id]) > 1

\* C14: an inserted entity whose radius is not positive occupies at least
\* one cell, and a queryCircle centred on it returns it
NonPositiveRadiusIsIndexed ==
  \A id \in DOMAIN grid.entityCells :
    (/\ EntityRadius(ents[id], 0) <= 0
     /\ grid.entityCells[id] = EntityCells(ents[id]))
    => /\ Len(grid.entityCells[id]) >= 1
       /\ id \in GridQueryCircle(grid, ents, ents[id].x, ents[id].y, 1)

\* C16: the exit of a generated zone is on the edge opposite to the spawn:
\* top for a bottom-edge spawn, right for a left-edge spawn, left for a
\* right-edge spawn (the margin of both points is 100).
ExitOppositeSpawn ==
  pc \notin { "idle", "bossDone" } =>
    LET sp == zone.spawn
        ex == zone.exit
        w  == zone.width
        h  == zone.height
    IN  /\ sp.y = h - 100 => ex.y = 100
        /\ (sp.y # h - 100 /\ sp.x = 100) => ex.x = w - 100
        /\ (sp.y # h - 100 /\ sp.x = w - 100) => ex.x = 100

\* C18: every zone returned by generate has between 3 and 7 POIs.
PoiCountInRange == pc = "done" => Len(zone.pois) \in 3..7

\* C20: no call of generate or generateBossZone ends in an exception.
GenerationNeverThrows == pc # "thrown"

\* C15: when World.update has returned (the frame goes on with
\* Player.update), the index holds exactly the living enemies of
\* State.enemies and the standing obstacles of the current zone.
IndexRebuiltEveryTick ==
  world.phase = "player" =>
    DOMAIN grid.entityCells =
      { EnemyId(stEnemies[i]) :
          i \in { j \in 1..Len(stEnemies) : ~ stEnemies[j].dead } }
        \cup { ObstacleId(world.loads, k) :
                 k \in (1..Len(world.currentZone[1].obstacles)) \ world.destroyed }

\* C17: once a zone of depth 3 or more is loaded, State.run.objective is
\* not null.
ObjectiveFromDepthThree ==
  (world.cont = "none" /\ world.currentZone # << >> /\ world.zoneIndex + 1 >= 3)
    => run.objective # << >>

\* C19: every kill of a run adds one to State.run.streak.count and sets the
\* XP multiplier to min(3.0, 1 + 0.1 (count - 1)) and the loot multiplier to
\* min(2.0, 1 + 0.05 (count - 1)), in tenths and hundredths.
KillBuildsStreak ==
  [][ run'.kills = run.kills + 1 =>
        /\ run.streak # << >>
        /\ run'.streak # << >>
        /\ run'.streak[1].count = run.streak[1].count + 1
        /\ run'.streak[1].xpMult = Min(30, 10 + (run'.streak[1].count - 1))
        /\ run'.streak[1].lootMult = Min(200, 100 + 5 * (run'.streak[1].count - 1)) ]_vars

\* C22: generate returns a null objective at every depth below 3, and at
\* every depth below 5 neither the objective of the returned Zone nor the
\* pick for any value of the weighted roll is survival or corruption.
ObjectiveGatedByDepth ==
  pc = "done" =>
    LET depth == Depth(arg.opts)
        total == TotalWeight(Objectives(depth), 1)
    IN  /\ depth < 3 => zone.objective = << >>
        /\ (depth >= 3 /\ depth < 5) =>
             /\ zone.objective # << >>
             /\ zone.objective[1].type \notin { "survival", "corruption" }
             /\ \A roll \in 0..total :
                  PickWeighted(Objectives(depth), 1, roll).type
                    \notin { "survival", "corruption" }

\* generate has returned a Zone of depth 4 whose objective is not the first
\* of the list
ObjectiveGatedWitness ==
  /\ pc = "done"
  /\ Depth(arg.opts) = 4
  /\ zone.objective # << >>
  /\ zone.objective[1].type \in { "timetrial", "lockdown" }

RemoveOfUnknownIsNoOp ==
  [][ (call' # << >> /\ call'[1].op = "remove" /\ ~ call'[1].known)
        => grid' = grid ]_vars

\* a remove of an entity the index does not hold has been made while the
\* index held another entity
RemoveOfUnknownWitness ==
  /\ call # << >>
  /\ call[1].op = "remove"
  /\ ~ call[1].known
  /\ DOMAIN grid.entityCells # {}

\* C30: insert, queryCircle and checkCollision resolve the radius of every
\* entity in the index to the same value.
RadiusResolvedAlike ==
  \A id \in DOMAIN grid.entityCells :
    /\ EntityRadius(ents[id], 16) = EntityRadius(ents[id], 0)
    /\ EntityRadius(ents[id], 16) = CollisionRadius(ents[id])

\* C21: while the objective of the zone locks the exit and is not complete,
\* no frame of the combat loop takes the exit or a branch exit: onExitReached
\* is not called, no zone is loaded and the zone stays the current one,
\* wherever the player stands.
LockedExitStaysShut ==
  [][ ( /\ InCombat
        /\ world.scene = "combat"
        /\ run.objective # << >>
        /\ run.objective[1].exitLocked
        /\ ~ run.objective[1].complete )
      => ( /\ world'.cont \notin { "exit", "branch" }
           /\ world'.loads = world.loads
           /\ world'.zoneIndex = world.zoneIndex
           /\ world'.currentZone = world.currentZone
           /\ run'.nextRoute = run.nextRoute ) ]_vars

\* World.update has run with the player in the first branch exit of a zone
\* whose exit is locked, and the zone is still the current one
LockedExitWitness ==
  /\ InCombat
  /\ world.phase = "player"
  /\ run.objective # << >>
  /\ run.objective[1].exitLocked
  /\ ~ run.objective[1].complete
  /\ LET z == world.currentZone[1]
     IN  /\ z.branchExits # << >>
         /\ Closer(player.x, player.y, z.branchExits[1].x, z.branchExits[1].y,
                   z.branchExits[1].radius + 15)

\* C28: once loadZone has completed, every living enemy in State.enemies
\* was spawned from a spawn entry of the zone that is now the current one.
NoEnemyOfPreviousZone ==
  InCombat =>
    \A k \in 1..Len(stEnemies) :
      ~ stEnemies[k].dead => stEnemies[k].load = world.loads

\* C23: under a lockdown objective the progress is the number of destroyed
\* generators of the zone, at most the target of 3, and the objective is
\* complete exactly when all the zone's generators (three of them) are
\* destroyed.
LockdownCountsGenerators ==
  ( /\ world.currentZone # << >>
    /\ run.objective # << >>
    /\ run.objective[1].type = "lockdown" )
  => LET z    == world.currentZone[1]
         gens == { k \in 1..Len(z.obstacles) : z.obstacles[k].type = "generator" }
         obj  == run.objective[1]
     IN  /\ Cardinality(gens) = 3
         /\ obj.target = 3
         /\ obj.progress = Cardinality(gens \cap world.destroyed)
         /\ obj.progress <= 3
         /\ obj.complete <=> gens \subseteq world.destroyed

\* a lockdown is complete after its three generators and one more obstacle
\* of the zone have been destroyed
LockdownCompleteWitness ==
  /\ InCombat
  /\ run.objective # << >>
  /\ run.objective[1].type = "lockdown"
  /\ run.objective[1].complete
  /\ run.objective[1].progress = 3
  /\ Cardinality(world.destroyed) = 4

ExterminateCompletes ==
  ( /\ InCombat
    /\ run.objective # << >>
    /\ run.objective[1].type = "exterminate"
    /\ LET z == world.currentZone[1]
       IN  \A k \in 1..Len(z.enemySpawns) + Len(z.eliteSpawns) :
             (EnemyRefs(z) \o EliteRefs(z))[k] \in world.killed )
  => ( run.objective[1].complete /\ ~ ExitLocked(run) )

\* C29: a spawn entry of the current zone that is killed stays killed, is
\* not active and gets no new enemy in any step that stays in the zone, and
\* no spawn entry is both active and killed.
KilledSpawnStaysDown ==
  [][ /\ world'.active \cap world'.killed = {}
      /\ (InCombat /\ world'.cont = "none" /\ world'.loads = world.loads)
         => \A ref \in world.killed :
              /\ ref \in world'.killed
              /\ ref \notin world'.active
              /\ \A k \in 1..Len(stEnemies') :
                   (stEnemies'[k].load = world.loads /\ stEnemies'[k].ref = ref)
                   => \E j \in 1..Len(stEnemies) : stEnemies[j] = stEnemies'[k]
    ]_vars

\* World.update has run in a zone in which one spawn entry is killed and a
\* second one, which lies within the spawn radius of the player's start
\* and so was active, has been despawned with the player beyond its
\* despawn radius
KilledSpawnWitness ==
  /\ InCombat
  /\ world.phase = "player"
  /\ LET z == world.currentZone[1]
     IN  \E a, b \in 1..Len(z.enemySpawns) :
           /\ << "enemy", a >> \in world.killed
           /\ << "enemy", b >> \notin world.killed \cup world.active
           /\ Closer(z.spawn.x, z.spawn.y, z.enemySpawns[b].x, z.enemySpawns[b].y,
                     SpawnRadius)
           /\ Farther(player.x, player.y, z.enemySpawns[b].x, z.enemySpawns[b].y,
                      DespawnRadius)
           /\ \A k \in 1..Len(stEnemies) :
                ~ (stEnemies[k].load = world.loads
                   /\ stEnemies[k].ref = << "enemy", b >>)
====
